---- MODULE Spec2Model ----
(***************************************************************************)
(* State-machine model of the client pages of the code-analysis dashboard. *)
(*                                                                         *)
(*   frontend/pages/results.js    the results page: the status poller      *)
(*                                (polling useEffect / fetchResults), the  *)
(*                                issue / pull-request / report actions,   *)
(*                                the derived statistics (calculateStats)  *)
(*                                and its sign-out                         *)
(*   frontend/pages/dashboard.js  the dashboard page: the analyze handler, *)
(*                                the repository and provider lists, the   *)
(*                                search and its sign-out                  *)
(*   unnamed/part_000             the callback page of the sign-in         *)
(*   frontend/pages/index.js      the home page (the sign-in link)         *)
(*                                                                         *)
(* A React component is modelled by its state variables; an effect or an   *)
(* event handler is one action.  A render that follows a state change and  *)
(* the effects that render re-runs belong to the action that caused the    *)
(* state change.  A pending promise (an axios request) or timer is an      *)
(* element of a set of outstanding continuations; the closure variables    *)
(* the continuation captured are fields of that element.                   *)
(***************************************************************************)
EXTENDS Integers, Sequences, FiniteSets, TLC

(***************************************************************************)
(* Bounds of the model.                                                    *)
(***************************************************************************)
\* status fetches issued in one behaviour of the results page
MaxFetch == 10
\* changes of router.query.job_id in one behaviour of the results page
MaxNav == 1
\* calls of the analyze handler in one behaviour of the dashboard
MaxCalls == 2
\* sign-ins at the hosting provider in one behaviour of the session
MaxLogins == 2
\* GET requests issued in one behaviour of the dashboard
MaxGets == 4
\* requests issued by the actions in one behaviour of the results page
MaxSent == 3
\* elements of the longest array of a result
MaxItems == 3
\* changes of router.query.job_id and status fetches in one behaviour of a
\* results page that is navigated more than once
MaxRevisits == 2
MaxPolls == 5
\* status fetches in one behaviour of a results page with its actions
MaxPagePolls == 3

(***************************************************************************)
(* Values.                                                                 *)
(***************************************************************************)
\* JavaScript null and undefined
Null == "<null>"
Undefined == "<undefined>"

\* job ids the router can deliver in router.query.job_id
Jobs == {"a", "b"}

\* the value localStorage holds under access_token when the user is logged in
Tok == "tok"

\* result payloads of a finished job (the rest of the response body)
Payloads == {1, 2}

\* JavaScript truthiness of the string-or-undefined values of the model
Falsy(x) == x \in {Null, Undefined, ""}

\* template-literal / string conversion of a string-or-undefined value
Str(x) == IF x = Undefined THEN "undefined" ELSE IF x = Null THEN "null" ELSE x

\* a || b || c on string-or-undefined values
Or3(a, b, c) == IF ~Falsy(a) THEN a ELSE IF ~Falsy(b) THEN b ELSE c

Min(a, b) == IF a < b THEN a ELSE b

(***************************************************************************)
(* Responses of GET /api/results/{job_id}.                                 *)
(***************************************************************************)
Body(s, e, p) == [status |-> s, error |-> e, payload |-> p]

RunningBodies == {Body("running", Undefined, 0)}
ErrorBodies == {Body("error", e, 0) : e \in {Undefined, "boom"}}
\* every other body: a status that is neither running nor error, or no status
OtherBodies == {Body(s, Undefined, p) : s \in {"done", "queued", Undefined}, p \in Payloads}
Bodies == RunningBodies \cup ErrorBodies \cup OtherBodies

NoData == Body(Undefined, Undefined, 0)

\* a resolved request: resp.data is the body
Resolved(b) == [ok |-> TRUE, data |-> b, detail |-> Undefined, message |-> Undefined]
\* a rejected request: err.response?.data?.detail and err.message
Rejected(d, m) == [ok |-> FALSE, data |-> NoData, detail |-> d, message |-> m]

\* server detail present; no response (network error); empty detail and no message
Failures == {Rejected("job not found", "Network Error"),
             Rejected(Undefined, "Network Error"),
             Rejected("", Undefined)}

VARIABLES
    \* ---- results page (frontend/pages/results.js) ----
    job_id,            \* router.query.job_id, Undefined while the router has none
    result,            \* <<>> for null, <<body>> once set
    loading,
    error,
    analysisProgress,
    token,
    isMounted,
    autoRefresh,
    alive,             \* the component is mounted in the React tree
    effectLive,        \* the last run of the polling effect returned its cleanup
    chains,            \* outstanding continuations of fetchResults
    nextId,            \* id of the next fetchResults closure
    pushedHome,        \* router.push('/') was called by the mount effect
    \* ---- history of the poller ----
    cancelled,         \* ids of the closures whose effect has been cleaned up
    last,              \* the last response a closure received
    lastJob,           \* the job that closure asked for
    fetchCount,        \* status fetches issued
    errorSets,         \* setError calls of the poller applied
    navCount,          \* changes of job_id
    \* ---- dashboard page (frontend/pages/dashboard.js) ----
    dToken,            \* token
    analysisMode,
    selectedRepo,
    customRepo,        \* the text of the input, a sequence of characters
    dLoading,          \* loading
    dError,            \* error
    isAnalyzing,
    jobId,
    posts,             \* outstanding POST requests of analyze
    redirects,         \* pending setTimeout callbacks of analyze
    pushedResults,     \* job ids of the router.push('/results?job_id=...') calls
    \* ---- history of the dashboard ----
    calls,             \* calls of analyze
    posted,            \* analysis requests posted
    returned,          \* the job id the backend returned for each request answered
    dFailure,          \* the failure the catch of analyze caught last
    \* ---- dashboard page: the lists and the search ----
    dMounted,          \* isMounted
    dPushedHome,       \* router.push("/") was called by the mount effect
    userRepos,         \* the full_name values of the repository list
    reposLoading,
    providers,         \* the names of the hosting providers
    searchResults,     \* the full_name values of the search results
    isSearching,
    gets,              \* outstanding GET requests of the dashboard
    issued,            \* GET requests issued by the dashboard
    failed,            \* history: the GET request that failed last
    \* ---- results page: the actions ----
    creatingIssue,
    creatingPR,
    creatingEnhancementPR,
    creatingDeploymentPR,
    resultFields,      \* patch, enhancement_patch, deployment_patch, hosting_config
    requests,          \* outstanding requests of the actions
    sent,              \* requests issued by the actions
    called,            \* history: the action whose handler ran in the last step, or ""
    settled,           \* history: the request of an action that settled last
    \* ---- the session in localStorage and the page shown ----
    storage,           \* localStorage: key -> value, Null for a key that is not there
    page,
    query,             \* router.query of the callback page
    cbStatus,          \* status of the callback page
    cbError,           \* error of the callback page
    cbTimers,          \* pending setTimeout callbacks of the callback page
    logins,            \* history: sign-ins at the hosting provider
    signedOut,         \* history: the page whose handleLogout ran last, "" if none
    \* ---- results page: the derived statistics ----
    resultData,        \* issues, enhancements, file_suggestions, files, total_lines
    stats              \* const stats = calculateStats() of the last render

rvars == <<job_id, result, loading, error, analysisProgress, token, isMounted,
           autoRefresh, alive, effectLive, chains, nextId, pushedHome>>
hvars == <<cancelled, last, lastJob, fetchCount, errorSets, navCount>>
dvars == <<dToken, analysisMode, selectedRepo, customRepo, dLoading, dError, isAnalyzing,
           jobId, posts, redirects, pushedResults, calls, posted, returned, dFailure>>
uvars == <<dMounted, dPushedHome, userRepos, reposLoading, providers, searchResults,
           isSearching, gets, issued, failed>>
avars == <<creatingIssue, creatingPR, creatingEnhancementPR, creatingDeploymentPR,
           resultFields, requests, sent, called, settled>>
svars == <<storage, page, query, cbStatus, cbError, cbTimers, logins, signedOut>>
cvars == <<resultData, stats>>
vars == <<rvars, hvars, dvars, uvars, avars, svars, cvars>>

\* a state setter of the component: ignored once the component is unmounted
SetState(old, new) == IF alive THEN new ELSE old

Ids(cs) == {c.id : c \in cs}

Chain(i, j, a, p) == [id |-> i, job |-> j, auto |-> a, phase |-> p]

\* no response received yet
NoLast == [ok |-> FALSE, data |-> NoData, detail |-> Null, message |-> Null]

(***************************************************************************)
(* localStorage.  The pages read and remove six keys; a key that is not    *)
(* there reads as null.                                                    *)
(***************************************************************************)
StorageKeys == {"access_token", "user_login", "user_name", "user_avatar", "user_email", "user_id"}

\* the user of the session
User == "ann"

\* localStorage.getItem(k)
GetItem(k) == storage[k]

\* an empty storage, and localStorage.clear()
NoStorage == [k \in StorageKeys |-> Null]

\* the storage after a sign-in: what the callback page has stored
SignedIn == [NoStorage EXCEPT !["access_token"] = Tok, !["user_login"] = User,
                              !["user_name"] = User]

\* the callback page: no query yet, and its useState initial values
NoQuery == [token |-> Undefined, user |-> Undefined]

\* no page of the session is acting: the page shown is pg, no sign-in or
\* sign-out has happened
InitSessionAt(pg) ==
    /\ page = pg
    /\ query = NoQuery
    /\ cbStatus = "processing"
    /\ cbError = ""
    /\ cbTimers = {}
    /\ logins = 0
    /\ signedOut = ""

(***************************************************************************)
(* Results(): the state after construction (useState initial values).      *)
(* router.query is empty on the first render of a hydrated page and holds  *)
(* job_id (job a) on the first render after a client-side navigation.      *)
(***************************************************************************)
InitResults ==
    /\ job_id \in {"a", Undefined}
    /\ result = <<>>
    /\ loading = TRUE
    /\ error = ""
    /\ analysisProgress = 0
    /\ token = Null
    /\ isMounted = FALSE
    /\ autoRefresh = TRUE
    /\ alive = TRUE
    /\ effectLive = FALSE
    /\ chains = {}
    /\ nextId = 1
    /\ pushedHome = FALSE
    /\ cancelled = {}
    /\ last = NoLast
    /\ lastJob = Undefined
    /\ fetchCount = 0
    /\ errorSets = 0
    /\ navCount = 0

(***************************************************************************)
(* The polling effect, useEffect(..., [job_id, isMounted, autoRefresh]),   *)
(* re-run after a change of job_id or isMounted to (j, m).                 *)
(*                                                                         *)
(*  1. the cleanup of the previous run, if that run returned one, calls    *)
(*     setAutoRefresh(false); it does nothing else, so the closures of     *)
(*     the previous run stay outstanding;                                  *)
(*  2. the effect runs in the render that saw the change, in which         *)
(*     autoRefresh still has its old value: if job_id and isMounted are    *)
(*     set it calls fetchResults (setLoading(true), one request);          *)
(*  3. if step 1 changed autoRefresh, the component renders again, the     *)
(*     dependency autoRefresh has changed, the cleanup of step 2 runs and  *)
(*     the effect runs once more, now with autoRefresh = false.            *)
(***************************************************************************)
PollEffect(j, m) ==
    LET auto0 == autoRefresh
        auto1 == IF effectLive THEN SetState(auto0, FALSE) ELSE auto0
        canc1 == IF effectLive THEN cancelled \cup Ids(chains) ELSE cancelled
        runs == j # Undefined /\ m
        again == auto1 # auto0
        c1 == Chain(nextId, j, auto0, "fetch")
        c2 == Chain(nextId + 1, j, auto1, "fetch")
    IN  /\ autoRefresh' = auto1
        /\ effectLive' = runs
        /\ IF ~runs
             THEN /\ chains' = chains
                  /\ cancelled' = canc1
                  /\ UNCHANGED <<nextId, loading, fetchCount>>
             ELSE /\ fetchCount + (IF again THEN 2 ELSE 1) <= MaxFetch
                  /\ chains' = chains \cup (IF again THEN {c1, c2} ELSE {c1})
                  /\ cancelled' = IF again THEN canc1 \cup {c1.id} ELSE canc1
                  /\ nextId' = nextId + (IF again THEN 2 ELSE 1)
                  /\ loading' = SetState(loading, TRUE)
                  /\ fetchCount' = fetchCount + (IF again THEN 2 ELSE 1)

(***************************************************************************)
(* The mount effect, useEffect(..., []): reads the session from storage,   *)
(* sets isMounted and redirects home when there is no token.  The change   *)
(* of isMounted re-runs the polling effect.                                *)
(***************************************************************************)
Mount ==
    /\ alive /\ ~isMounted
    /\ LET storedToken == GetItem("access_token")
       IN  /\ token' = storedToken
           /\ pushedHome' = Falsy(storedToken)
    /\ isMounted' = TRUE
    /\ PollEffect(job_id, TRUE)
    /\ UNCHANGED <<job_id, result, error, analysisProgress, alive>>
    /\ UNCHANGED <<last, lastJob, errorSets, navCount>>

(***************************************************************************)
(* router.query.job_id changes while the page stays mounted (the router    *)
(* becomes ready, or a navigation to /results?job_id=j).                   *)
(***************************************************************************)
RouterQueryUpTo(n) ==
    /\ alive
    /\ navCount < n
    /\ \E j \in Jobs \ {job_id} :
         /\ job_id' = j
         /\ PollEffect(j, isMounted)
    /\ navCount' = navCount + 1
    /\ UNCHANGED <<result, error, analysisProgress, token, isMounted, alive, pushedHome>>
    /\ UNCHANGED <<last, lastJob, errorSets>>

RouterQuery == RouterQueryUpTo(MaxNav)

(***************************************************************************)
(* The page is left: React runs the cleanup of the polling effect and      *)
(* discards the component with its state (the variables of the page go     *)
(* back to the values a component is constructed with and no setter has    *)
(* an effect any more); outstanding requests and timers remain.            *)
(***************************************************************************)
Unmount ==
    /\ alive /\ isMounted
    /\ alive' = FALSE
    /\ cancelled' = IF effectLive THEN cancelled \cup Ids(chains) ELSE cancelled
    /\ effectLive' = FALSE
    /\ job_id' = Undefined
    /\ result' = <<>>
    /\ loading' = TRUE
    /\ error' = ""
    /\ analysisProgress' = 0
    /\ token' = Null
    /\ isMounted' = FALSE
    /\ autoRefresh' = TRUE
    /\ UNCHANGED <<chains, nextId, pushedHome>>
    /\ UNCHANGED <<last, lastJob, fetchCount, errorSets, navCount>>

(***************************************************************************)
(* fetchResults, from the timer: setTimeout(fetchResults, 2000) fires.     *)
(***************************************************************************)
Tick ==
    \E c \in chains :
      /\ c.phase = "timer"
      /\ fetchCount < MaxFetch
      /\ loading' = SetState(loading, TRUE)
      /\ chains' = (chains \ {c}) \cup {[c EXCEPT !.phase = "fetch"]}
      /\ fetchCount' = fetchCount + 1
      /\ UNCHANGED <<job_id, result, error, analysisProgress, token, isMounted,
                     autoRefresh, alive, effectLive, nextId, pushedHome>>
      /\ UNCHANGED <<cancelled, last, lastJob, errorSets, navCount>>

\* the updater of setAnalysisProgress in the running branch
ProgressRunning_NoCap(prev) == prev + 10
ProgressRunning(prev) == Min(prev + 10, 90)

\* the message of the error branch
ErrorMessage_Generic(data) == "Analysis failed"
ErrorMessage(data) == "Analysis failed: " \o Str(data.error)

\* the message of the catch branch
FailureMessage_MessageFirst(r) == Or3(r.message, r.detail, "Failed to fetch results")
FailureMessage(r) == Or3(r.detail, r.message, "Failed to fetch results")

\* what setResult stores in the completion branch: resp.data, the whole body
StoredResult_FirstPayload(data) == <<[data EXCEPT !.payload = 1]>>
StoredResult_StatusDone(data) == <<[data EXCEPT !.status = "done"]>>
StoredResult(data) == <<data>>

\* the continuation of a closure after a running response:
\* if (autoRefresh) setTimeout(fetchResults, 2000), autoRefresh being the
\* value the closure captured
AfterRunning(c) == IF c.auto THEN {[c EXCEPT !.phase = "timer"]} ELSE {}

\* the continuation of a closure after an error, a completion or a rejected
\* request: these branches schedule nothing
AfterTerminal_Retry(c) == {[c EXCEPT !.phase = "timer"]}
AfterTerminal(c) == {}

Receives(c, r) ==
    /\ c.phase = "fetch"
    /\ last' = r
    /\ lastJob' = c.job
    /\ UNCHANGED <<job_id, token, isMounted, autoRefresh, alive, effectLive, nextId, pushedHome>>
    /\ UNCHANGED <<cancelled, fetchCount, navCount>>

(***************************************************************************)
(* fetchResults, after the await: resp.data.status === 'running'.          *)
(***************************************************************************)
RespRunning ==
    \E c \in chains, b \in RunningBodies :
      /\ Receives(c, Resolved(b))
      /\ analysisProgress' = SetState(analysisProgress, ProgressRunning(analysisProgress))
      /\ chains' = (chains \ {c}) \cup AfterRunning(c)
      /\ UNCHANGED <<result, loading, error, errorSets>>

(***************************************************************************)
(* fetchResults, after the await: resp.data.status === 'error'.            *)
(***************************************************************************)
RespError ==
    \E c \in chains, b \in ErrorBodies :
      /\ Receives(c, Resolved(b))
      /\ error' = SetState(error, ErrorMessage(b))
      /\ loading' = SetState(loading, FALSE)
      /\ analysisProgress' = SetState(analysisProgress, 0)
      /\ chains' = (chains \ {c}) \cup AfterTerminal(c)
      /\ errorSets' = IF alive THEN errorSets + 1 ELSE errorSets
      /\ UNCHANGED result

(***************************************************************************)
(* fetchResults, after the await: the else branch (completion).            *)
(***************************************************************************)
RespOther ==
    \E c \in chains, b \in OtherBodies :
      /\ Receives(c, Resolved(b))
      /\ result' = SetState(result, StoredResult(b))
      /\ loading' = SetState(loading, FALSE)
      /\ analysisProgress' = SetState(analysisProgress, 100)
      /\ chains' = (chains \ {c}) \cup AfterTerminal(c)
      /\ UNCHANGED <<error, errorSets>>

(***************************************************************************)
(* fetchResults, the catch: the request was rejected.                      *)
(***************************************************************************)
RespFailure ==
    \E c \in chains, r \in Failures :
      /\ Receives(c, r)
      /\ error' = SetState(error, FailureMessage(r))
      /\ loading' = SetState(loading, FALSE)
      /\ analysisProgress' = SetState(analysisProgress, 0)
      /\ chains' = (chains \ {c}) \cup AfterTerminal(c)
      /\ errorSets' = IF alive THEN errorSets + 1 ELSE errorSets
      /\ UNCHANGED result

(***************************************************************************)
(* Results page: the actions (createIssue, createPR, createEnhancementPR,  *)
(* createDeploymentPR, downloadPDFReport).                                 *)
(***************************************************************************)
ActionOps == {"issue", "pr", "enhancement", "deployment", "download"}

\* the entries of result.issues a Create Issue button is shown for
Issues == {1, 2}

\* the fields of the result the actions and their buttons test
ResultFieldNames == {"patch", "enhancement_patch", "deployment_patch", "hosting_config"}

\* the results the backend can deliver, by these fields: each field there
\* ("diff") or not, and a result whose fields are all empty strings
ResultShapes ==
    {[f \in ResultFieldNames |-> IF f \in there THEN "diff" ELSE Undefined] :
       there \in SUBSET ResultFieldNames}
    \cup {[f \in ResultFieldNames |-> ""]}

\* result?.f
ResultField(f) == IF result = <<>> THEN Undefined ELSE resultFields[f]

\* the field a PR creation requires
PatchOf(op) ==
    CASE op = "pr" -> "patch"
      [] op = "enhancement" -> "enhancement_patch"
      [] op = "deployment" -> "deployment_patch"

\* the message of a PR creation whose field is missing
NoPatchMessage(op) ==
    CASE op = "pr" -> "No patch available"
      [] op = "enhancement" -> "No enhancement suggestions available"
      [] op = "deployment" -> "No deployment configuration available"

\* the fallback message of the catch of an action
ActionFailureFallback(op) ==
    CASE op = "issue" -> "Failed to create issue"
      [] op = "pr" -> "Failed to create PR"
      [] op = "enhancement" -> "Failed to create enhancement PR"
      [] op = "deployment" -> "Failed to create deployment PR"
      [] op = "download" -> "Failed to download PDF"

ActionEndpoint(op) ==
    CASE op = "issue" -> "/api/issue"
      [] op = "pr" -> "/api/pr"
      [] op = "enhancement" -> "/api/pr-enhancements"
      [] op = "deployment" -> "/api/pr-deployment"
      [] op = "download" -> "/api/download-report"

\* err.response?.data?.detail of a failed request of an action
ActionDetails == {Undefined, "", "Bad credentials"}

\* the in-flight flag of an action
Flag(op) ==
    CASE op = "issue" -> creatingIssue
      [] op = "pr" -> creatingPR
      [] op = "enhancement" -> creatingEnhancementPR
      [] op = "deployment" -> creatingDeploymentPR
      [] op = "download" -> FALSE

\* setCreatingIssue(v), setCreatingPR(v), setCreatingEnhancementPR(v) or
\* setCreatingDeploymentPR(v): the setter of the action op
SetFlag_Shared(op, v) ==
    /\ creatingIssue' = v
    /\ creatingPR' = v
    /\ creatingEnhancementPR' = v
    /\ creatingDeploymentPR' = v
SetFlag(op, v) ==
    /\ creatingIssue' = IF op = "issue" THEN v ELSE creatingIssue
    /\ creatingPR' = IF op = "pr" THEN v ELSE creatingPR
    /\ creatingEnhancementPR' = IF op = "enhancement" THEN v ELSE creatingEnhancementPR
    /\ creatingDeploymentPR' = IF op = "deployment" THEN v ELSE creatingDeploymentPR

NoFlagChange ==
    UNCHANGED <<creatingIssue, creatingPR, creatingEnhancementPR, creatingDeploymentPR>>

\* no request of an action has settled yet
NoSettled == [id |-> 0, op |-> "", ok |-> TRUE]

\* the actions at the construction of Results(): useState(false) four times
InitActions ==
    /\ creatingIssue = FALSE
    /\ creatingPR = FALSE
    /\ creatingEnhancementPR = FALSE
    /\ creatingDeploymentPR = FALSE
    /\ requests = {}
    /\ sent = 0
    /\ called = ""
    /\ settled = NoSettled

\* what an action leaves alone
ActionFrame ==
    /\ UNCHANGED <<job_id, result, loading, analysisProgress, token, isMounted,
                   autoRefresh, alive, effectLive, chains, nextId, pushedHome>>
    /\ UNCHANGED hvars
    /\ UNCHANGED resultFields

\* the request of an action: axios.post(endpoint, {job_id, ..., access_token})
PostAction(op, issue) ==
    /\ sent < MaxSent
    /\ requests' = requests \cup {[id |-> sent + 1, op |-> op, issue |-> issue,
                                   endpoint |-> ActionEndpoint(op), job_id |-> job_id,
                                   access_token |-> token]}
    /\ sent' = sent + 1

\* an action that returns before its request: setError(message)
RejectAction(message) ==
    /\ error' = message
    /\ NoFlagChange
    /\ UNCHANGED <<requests, sent>>

(***************************************************************************)
(* createIssue(issue), up to the await.                                    *)
(***************************************************************************)
CreateIssue(issue) ==
    /\ IF Falsy(token)
         THEN RejectAction("Not authenticated. Please login first.")
         ELSE /\ SetFlag("issue", TRUE)
              /\ PostAction("issue", issue)
              /\ UNCHANGED error
    /\ called' = "issue"
    /\ UNCHANGED settled
    /\ ActionFrame

\* the precondition of a PR creation: the message it returns with, or ""
\* when it goes on to its request
PRRejection_PatchFirst(op) ==
    IF Falsy(ResultField(PatchOf(op))) THEN NoPatchMessage(op)
    ELSE IF Falsy(token) THEN "Not authenticated. Please login first."
    ELSE ""
PRRejection(op) ==
    IF Falsy(token) THEN "Not authenticated. Please login first."
    ELSE IF Falsy(ResultField(PatchOf(op))) THEN NoPatchMessage(op)
    ELSE ""

\* createPR, createEnhancementPR and createDeploymentPR, up to the await
CreatePRFor(op) ==
    /\ IF PRRejection(op) # ""
         THEN RejectAction(PRRejection(op))
         ELSE /\ SetFlag(op, TRUE)
              /\ PostAction(op, 0)
              /\ UNCHANGED error
    /\ called' = op
    /\ UNCHANGED settled
    /\ ActionFrame

CreatePR == CreatePRFor("pr")

CreateEnhancementPR == CreatePRFor("enhancement")

CreateDeploymentPR == CreatePRFor("deployment")

(***************************************************************************)
(* downloadPDFReport, up to the await.                                     *)
(***************************************************************************)
DownloadPDFReport ==
    /\ PostAction("download", 0)
    /\ NoFlagChange
    /\ called' = "download"
    /\ UNCHANGED <<error, settled>>
    /\ ActionFrame

(***************************************************************************)
(* createIssue and the PR creations, after the await: the request          *)
(* succeeded (alert, window.open), finally the flag is reset.              *)
(***************************************************************************)
ActionResolved_ClearsError ==
    \E r \in requests :
      /\ r.op # "download"
      /\ requests' = requests \ {r}
      /\ SetFlag(r.op, FALSE)
      /\ settled' = [id |-> r.id, op |-> r.op, ok |-> TRUE]
      /\ called' = ""
      /\ error' = ""
      /\ UNCHANGED sent
      /\ ActionFrame
ActionResolved ==
    \E r \in requests :
      /\ r.op # "download"
      /\ requests' = requests \ {r}
      /\ SetFlag(r.op, FALSE)
      /\ settled' = [id |-> r.id, op |-> r.op, ok |-> TRUE]
      /\ called' = ""
      /\ UNCHANGED <<error, sent>>
      /\ ActionFrame

(***************************************************************************)
(* createIssue and the PR creations, the catch and finally.                *)
(***************************************************************************)
ActionRejected_NoFinally ==
    \E r \in requests, detail \in ActionDetails :
      /\ r.op # "download"
      /\ requests' = requests \ {r}
      /\ error' = Or3(detail, ActionFailureFallback(r.op), ActionFailureFallback(r.op))
      /\ NoFlagChange
      /\ settled' = [id |-> r.id, op |-> r.op, ok |-> FALSE]
      /\ called' = ""
      /\ UNCHANGED sent
      /\ ActionFrame
ActionRejected ==
    \E r \in requests, detail \in ActionDetails :
      /\ r.op # "download"
      /\ requests' = requests \ {r}
      /\ error' = Or3(detail, ActionFailureFallback(r.op), ActionFailureFallback(r.op))
      /\ SetFlag(r.op, FALSE)
      /\ settled' = [id |-> r.id, op |-> r.op, ok |-> FALSE]
      /\ called' = ""
      /\ UNCHANGED sent
      /\ ActionFrame

(***************************************************************************)
(* downloadPDFReport, after the await: the report is saved; a response     *)
(* without pdf makes Buffer.from throw, which the catch handles.           *)
(***************************************************************************)
DownloadResolved ==
    \E r \in requests, pdf \in {Undefined, "255044462d"} :
      /\ r.op = "download"
      /\ requests' = requests \ {r}
      /\ error' = IF pdf = Undefined THEN ActionFailureFallback("download") ELSE error
      /\ settled' = [id |-> r.id, op |-> r.op, ok |-> pdf # Undefined]
      /\ called' = ""
      /\ NoFlagChange
      /\ UNCHANGED sent
      /\ ActionFrame

\* downloadPDFReport, the catch: the request failed
DownloadRejected ==
    \E r \in requests :
      /\ r.op = "download"
      /\ requests' = requests \ {r}
      /\ error' = ActionFailureFallback("download")
      /\ settled' = [id |-> r.id, op |-> r.op, ok |-> FALSE]
      /\ called' = ""
      /\ NoFlagChange
      /\ UNCHANGED sent
      /\ ActionFrame

\* the result view is rendered: not loading, no error, a result
ResultShown == job_id # Undefined /\ ~loading /\ error = "" /\ result # <<>>

\* the render condition of the buttons of an action
ButtonShown(op) ==
    CASE op = "issue" -> TRUE
      [] op = "pr" -> ~Falsy(ResultField("patch"))
      [] op = "enhancement" -> ~Falsy(ResultField("enhancement_patch"))
      [] op = "deployment" -> ~Falsy(ResultField("hosting_config"))
      [] op = "download" -> TRUE

\* disabled={creatingIssue} etc. on the buttons of an action
Disabled_Never(op) == FALSE
Disabled(op) == Flag(op)

\* a button of the action can be clicked
CanClick(op) == ResultShown /\ ButtonShown(op) /\ ~Disabled(op)

\* the buttons of the actions
ClickCreateIssue == CanClick("issue") /\ (\E issue \in Issues : CreateIssue(issue))

ClickCreatePR == CanClick("pr") /\ CreatePR

ClickCreateEnhancementPR == CanClick("enhancement") /\ CreateEnhancementPR

ClickCreateDeploymentPR == CanClick("deployment") /\ CreateDeploymentPR

ClickDownload == CanClick("download") /\ DownloadPDFReport

(***************************************************************************)
(* Results page: calculateStats, called in every render.  A field of the   *)
(* result is a tagged value: the key is missing (undefined), its value is  *)
(* null, or it is an array (items) or a number (n).  An element of issues, *)
(* enhancements and file_suggestions is its severity, type or priority; an *)
(* element of files is its name.                                           *)
(***************************************************************************)
Missing == [kind |-> "undefined", items |-> <<>>, n |-> 0]

NullValue == [kind |-> "null", items |-> <<>>, n |-> 0]

Arr(items) == [kind |-> "array", items |-> items, n |-> 0]

Num(n) == [kind |-> "number", items |-> <<>>, n |-> n]

Severities == {"high", "medium", "low", "critical"}

EnhancementTypes == {"performance", "security", "maintainability", "style"}

Priorities == {"high", "medium", "low", "none"}

\* the arrays of at most n elements over a set of values
ArraysUpTo(values, n) == UNION {{Arr(items) : items \in [1..k -> values]} : k \in 0..n}

\* a field that is not there, is null, or is an array of one element
PlainFields(value) == {Missing, NullValue, Arr(<<value>>)}

FilesFields == {Missing, NullValue, Arr(<<>>), Arr(<<"a.js", "b.js">>)}

TotalLinesFields == {Missing, NullValue, Num(0), Num(120)}

ResultData(i, e, f, fl, tl) ==
    [issues |-> i, enhancements |-> e, file_suggestions |-> f, files |-> fl, total_lines |-> tl]

\* resultData is a result the backend can deliver, by these fields: one of
\* the three categorised arrays has up to MaxItems elements
DeliveredResultData ==
    \E fl \in FilesFields, tl \in TotalLinesFields :
      \/ \E i \in ArraysUpTo(Severities, MaxItems), e \in PlainFields("security"),
            f \in PlainFields("low") : resultData = ResultData(i, e, f, fl, tl)
      \/ \E i \in PlainFields("high"), e \in ArraysUpTo(EnhancementTypes, MaxItems),
            f \in PlainFields("low") : resultData = ResultData(i, e, f, fl, tl)
      \/ \E i \in PlainFields("high"), e \in PlainFields("security"),
            f \in ArraysUpTo(Priorities, MaxItems) : resultData = ResultData(i, e, f, fl, tl)

\* the result fields while there is no result
NoResultData == ResultData(Missing, Missing, Missing, Missing, Missing)

\* const stats before the first render
NotRendered == [kind |-> "none"]

\* the derived statistics at the construction of Results()
InitStats == resultData = NoResultData /\ stats = NotRendered

\* the default of a destructuring pattern, { field = [] } = result: it
\* applies to undefined only
Defaulted_None(field) == field
Defaulted(field) == IF field.kind = "undefined" THEN Arr(<<>>) ELSE field

\* array.filter(x => x.field === value).length
FilterLength_All(items, value) == Len(items)
RECURSIVE FilterLength(_, _)
FilterLength(items, value) ==
    IF items = <<>> THEN 0
    ELSE (IF Head(items) = value THEN 1 ELSE 0) + FilterLength(Tail(items), value)

\* result.files?.length || 0
FilesLength(files) == IF files.kind = "array" THEN Len(files.items) ELSE 0

\* result.total_lines || 0
TotalLines(lines) == IF lines.kind = "number" THEN lines.n ELSE 0

\* calculateStats(): null without a result; .filter on a value that is not
\* an array throws a TypeError
CalculateStats ==
    IF result = <<>> THEN [kind |-> "null"]
    ELSE LET issues == Defaulted(resultData.issues)
             enhancements == Defaulted(resultData.enhancements)
             file_suggestions == Defaulted(resultData.file_suggestions)
         IN  IF \E a \in {issues, enhancements, file_suggestions} : a.kind # "array"
               THEN [kind |-> "TypeError"]
               ELSE [kind |-> "stats",
                     highSeverity |-> FilterLength(issues.items, "high"),
                     mediumSeverity |-> FilterLength(issues.items, "medium"),
                     lowSeverity |-> FilterLength(issues.items, "low"),
                     performanceEnhancements |-> FilterLength(enhancements.items, "performance"),
                     securityEnhancements |-> FilterLength(enhancements.items, "security"),
                     maintainabilityEnhancements |->
                         FilterLength(enhancements.items, "maintainability"),
                     highPriorityFiles |-> FilterLength(file_suggestions.items, "high"),
                     mediumPriorityFiles |-> FilterLength(file_suggestions.items, "medium"),
                     lowPriorityFiles |-> FilterLength(file_suggestions.items, "low"),
                     totalFiles |-> FilesLength(resultData.files),
                     analyzedLines |-> TotalLines(resultData.total_lines),
                     totalIssues |-> Len(issues.items),
                     totalEnhancements |-> Len(enhancements.items)]

(***************************************************************************)
(* A render of Results(): const stats = calculateStats().                  *)
(***************************************************************************)
Render ==
    /\ stats = NotRendered
    /\ stats' = CalculateStats
    /\ UNCHANGED resultData
    /\ UNCHANGED <<rvars, hvars, avars>>

(***************************************************************************)
(* Dashboard page: the analyze handler.                                    *)
(***************************************************************************)
AnalysisModes == {"your-repos", "public-repo"}

\* full_name values of the user's repository list
UserRepoNames == {"me/app"}

\* texts of the public-repository input
CustomRepoTexts == {<<>>, <<" ">>, <<" ", "\t">>, <<"o", "/", "r">>, <<" ", "o", "/", "r">>}

\* characters String.prototype.trim removes
Whitespace == {" ", "\t", "\n"}

RECURSIVE TrimStart(_)
TrimStart(s) == IF s # <<>> /\ Head(s) \in Whitespace THEN TrimStart(Tail(s)) ELSE s

RECURSIVE TrimEnd(_)
TrimEnd(s) ==
    IF s # <<>> /\ s[Len(s)] \in Whitespace THEN TrimEnd(SubSeq(s, 1, Len(s) - 1)) ELSE s

\* customRepo.trim()
Trim_None(s) == s
Trim(s) == TrimEnd(TrimStart(s))

\* no failure caught yet
NoFailure == [post |-> 0, status |-> 0, detail |-> Null, message |-> Null]

\* useState initial values of Dashboard()
InitDashboard ==
    /\ dToken = Null
    /\ analysisMode = "your-repos"
    /\ selectedRepo = ""
    /\ customRepo = <<>>
    /\ dLoading = FALSE
    /\ dError = ""
    /\ isAnalyzing = FALSE
    /\ jobId = Null
    /\ posts = {}
    /\ redirects = {}
    /\ pushedResults = <<>>
    /\ calls = 0
    /\ posted = 0
    /\ returned = {}
    /\ dFailure = NoFailure

\* the local validation of analyze: the message it rejects the call with,
\* or "" when the call goes on to post the request
AnalyzeRejection ==
    IF Falsy(dToken) THEN "Not authenticated. Please login first."
    ELSE IF analysisMode = "your-repos"
      THEN (IF selectedRepo = "" THEN "Please select a repository" ELSE "")
      ELSE (IF Trim(customRepo) = <<>>
              THEN "Please enter a public repository (owner/repo)" ELSE "")

\* the request analyze posts: the endpoint and the locator key of the payload
\* (a key the payload does not have is <<>>, a key it has is <<value>>)
AnalyzeRequest_BothKeys ==
    [endpoint |-> IF analysisMode = "your-repos" THEN "/api/analyze-repo" ELSE "/api/analyze",
     repo_full_name |-> <<selectedRepo>>,
     repo_url |-> <<customRepo>>, access_token |-> dToken]
AnalyzeRequest ==
    IF analysisMode = "your-repos"
      THEN [endpoint |-> "/api/analyze-repo", repo_full_name |-> <<selectedRepo>>,
            repo_url |-> <<>>, access_token |-> dToken]
      ELSE [endpoint |-> "/api/analyze", repo_full_name |-> <<>>,
            repo_url |-> <<customRepo>>, access_token |-> dToken]

(***************************************************************************)
(* analyze, up to the await of axios.post.                                 *)
(***************************************************************************)
Analyze ==
    /\ calls < MaxCalls
    /\ calls' = calls + 1
    /\ IF AnalyzeRejection # ""
         THEN /\ dError' = AnalyzeRejection
              /\ UNCHANGED <<dLoading, isAnalyzing, posts, posted>>
         ELSE /\ dLoading' = TRUE
              /\ isAnalyzing' = TRUE
              /\ dError' = ""
              /\ posts' = posts \cup {[id |-> posted + 1, req |-> AnalyzeRequest]}
              /\ posted' = posted + 1
    /\ UNCHANGED <<dToken, analysisMode, selectedRepo, customRepo, jobId, redirects,
                   pushedResults, returned, dFailure>>

\* the locator fields after a successful post: setSelectedRepo(""),
\* setCustomRepo("")
FieldsAfterSuccess_Kept == [selectedRepo |-> selectedRepo, customRepo |-> customRepo]
FieldsAfterSuccess == [selectedRepo |-> "", customRepo |-> <<>>]

(***************************************************************************)
(* analyze, after the await: the request succeeded with resp.data.job_id.  *)
(***************************************************************************)
AnalyzeResolved ==
    \E p \in posts, j \in Jobs :
      /\ posts' = posts \ {p}
      /\ jobId' = j
      /\ selectedRepo' = FieldsAfterSuccess.selectedRepo
      /\ customRepo' = FieldsAfterSuccess.customRepo
      /\ redirects' = redirects \cup {[post |-> p.id, job |-> j]}
      /\ returned' = returned \cup {[post |-> p.id, job |-> j]}
      /\ UNCHANGED <<dToken, analysisMode, dLoading, dError, isAnalyzing, pushedResults,
                     calls, posted, dFailure>>

\* the job id of router.push(`/results?job_id=${resp.data.job_id}`) in the
\* timer callback r: the resp of the call that set the timer
RedirectTarget_StoredJobId(r) == jobId
RedirectTarget(r) == r.job

(***************************************************************************)
(* analyze, the setTimeout callback 2000 ms after a success.               *)
(***************************************************************************)
AnalyzeRedirect ==
    \E r \in redirects :
      /\ redirects' = redirects \ {r}
      /\ isAnalyzing' = FALSE
      /\ pushedResults' = Append(pushedResults, RedirectTarget(r))
      /\ UNCHANGED <<dToken, analysisMode, selectedRepo, customRepo, dLoading, dError,
                     jobId, posts, calls, posted, returned, dFailure>>

\* the rate-limit message of the catch of analyze (the text after its
\* leading warning sign)
RateLimitMessage ==
    "Rate Limit Exceeded (429). The Gemini API is currently busy. Please wait a minute and try again, or use a different API key."

\* a detail that is an object (a list of validation errors), and its JSON text
DetailObject == "<object>"
JsonStringify(x) == IF x = DetailObject THEN "[{\"msg\":\"field required\"}]" ELSE x

\* failures of the analysis request: err.response.status (0 when there is no
\* response), the detail of the response body and err.message
AnalyzeFailures ==
    {[status |-> 429, detail |-> Undefined, message |-> "Request failed with status code 429"],
     [status |-> 500, detail |-> "quota 429", message |-> "Request failed with status code 500"],
     [status |-> 500, detail |-> "", message |-> "Request failed with status code 500"],
     [status |-> 400, detail |-> "Repository not found", message |-> "Request failed with status code 400"],
     [status |-> 422, detail |-> DetailObject, message |-> "Request failed with status code 422"],
     [status |-> 0, detail |-> Undefined, message |-> "Network Error"],
     [status |-> 0, detail |-> Undefined, message |-> Undefined]}

\* the characters of the texts a failure can carry
Chars(t) ==
    CASE
         t = "Request failed with status code 429" ->
          <<"R", "e", "q", "u", "e", "s", "t", " ", "f", "a", "i", "l", "e", "d", " ", "w", "i", "t", "h", " ", "s", "t", "a", "t", "u", "s", " ", "c", "o", "d", "e", " ", "4", "2", "9">>
      [] t = "Request failed with status code 500" ->
          <<"R", "e", "q", "u", "e", "s", "t", " ", "f", "a", "i", "l", "e", "d", " ", "w", "i", "t", "h", " ", "s", "t", "a", "t", "u", "s", " ", "c", "o", "d", "e", " ", "5", "0", "0">>
      [] t = "Request failed with status code 400" ->
          <<"R", "e", "q", "u", "e", "s", "t", " ", "f", "a", "i", "l", "e", "d", " ", "w", "i", "t", "h", " ", "s", "t", "a", "t", "u", "s", " ", "c", "o", "d", "e", " ", "4", "0", "0">>
      [] t = "Request failed with status code 422" ->
          <<"R", "e", "q", "u", "e", "s", "t", " ", "f", "a", "i", "l", "e", "d", " ", "w", "i", "t", "h", " ", "s", "t", "a", "t", "u", "s", " ", "c", "o", "d", "e", " ", "4", "2", "2">>
      [] t = "quota 429" ->
          <<"q", "u", "o", "t", "a", " ", "4", "2", "9">>
      [] t = "Repository not found" ->
          <<"R", "e", "p", "o", "s", "i", "t", "o", "r", "y", " ", "n", "o", "t", " ", "f", "o", "u", "n", "d">>
      [] t = "Network Error" ->
          <<"N", "e", "t", "w", "o", "r", "k", " ", "E", "r", "r", "o", "r">>
      [] t = "Analysis failed" ->
          <<"A", "n", "a", "l", "y", "s", "i", "s", " ", "f", "a", "i", "l", "e", "d">>

\* String.prototype.includes on sequences of characters
RECURSIVE Includes(_, _)
Includes(s, pat) ==
    IF Len(pat) <= Len(s) /\ SubSeq(s, 1, Len(pat)) = pat THEN TRUE
    ELSE IF s = <<>> THEN FALSE
    ELSE Includes(Tail(s), pat)

\* typeof detail === 'string' && detail.includes('429')
Includes429(detail) == detail # DetailObject /\ Includes(Chars(detail), <<"4", "2", "9">>)

\* the message the catch of analyze passes to setError
AnalyzeFailureMessage_StatusOnly(e) ==
    IF e.status = 429 THEN RateLimitMessage
    ELSE JsonStringify(Or3(e.detail, e.message, "Analysis failed"))
AnalyzeFailureMessage(e) ==
    LET detail == Or3(e.detail, e.message, "Analysis failed")
    IN  IF e.status = 429 \/ Includes429(detail)
          THEN RateLimitMessage
          ELSE JsonStringify(detail)

(***************************************************************************)
(* analyze, the catch: the request failed.                                 *)
(***************************************************************************)
AnalyzeRejected ==
    \E p \in posts, e \in AnalyzeFailures :
      /\ posts' = posts \ {p}
      /\ isAnalyzing' = FALSE
      /\ dError' = AnalyzeFailureMessage(e)
      /\ dLoading' = FALSE
      /\ dFailure' = [post |-> p.id, status |-> e.status, detail |-> e.detail,
                      message |-> e.message]
      /\ UNCHANGED <<dToken, analysisMode, selectedRepo, customRepo, jobId, redirects,
                     pushedResults, calls, posted, returned>>

(***************************************************************************)
(* Dashboard page: the mount effects, the repository list, the provider    *)
(* list, the search and the controls of the analysis card.                 *)
(***************************************************************************)
\* the repository lists GET /api/user/repos can return (their full_name values)
RepoLists == {UserRepoNames, {"me/lib"}}

\* the provider lists GET /api/hosting/providers can return
ProviderLists == {{"vercel"}}

\* the full_name values GET /api/github/search can return
SearchNames == {<<"o", "/", "r">>}

\* the texts the user types into the public-repository input
TypedTexts == {<<>>, <<"o", "/", "r">>}

\* no GET request has failed yet
NoFailed == [id |-> 0, op |-> ""]

Get(i, o, q) == [id |-> i, op |-> o, q |-> q]

\* useState initial values of Dashboard(): the lists and the search
InitDashboardPage ==
    /\ dMounted = FALSE
    /\ dPushedHome = FALSE
    /\ userRepos = {}
    /\ reposLoading = FALSE
    /\ providers = {}
    /\ searchResults = {}
    /\ isSearching = FALSE
    /\ gets = {}
    /\ issued = 0
    /\ failed = NoFailed

\* the dashboard is on screen: its mount effect has run and it has not
\* pushed another page
DashboardShown == dMounted /\ ~dPushedHome /\ pushedResults = <<>>

(***************************************************************************)
(* The mount effect and, in the render that follows, the effect on         *)
(* [token, isMounted]: fetchProviders() and fetchUserRepos() when there is *)
(* a token.                                                                *)
(***************************************************************************)
DMount ==
    /\ ~dMounted
    /\ dMounted' = TRUE
    /\ LET storedToken == GetItem("access_token")
       IN  /\ dToken' = storedToken
           /\ dPushedHome' = Falsy(storedToken)
           /\ IF Falsy(storedToken)
                THEN UNCHANGED <<gets, issued, reposLoading>>
                ELSE /\ issued + 2 <= MaxGets
                     /\ gets' = gets \cup {Get(issued + 1, "providers", <<>>),
                                           Get(issued + 2, "repos", <<>>)}
                     /\ issued' = issued + 2
                     /\ reposLoading' = TRUE
    /\ UNCHANGED <<userRepos, providers, searchResults, isSearching, failed>>
    /\ UNCHANGED <<analysisMode, selectedRepo, customRepo, dLoading, dError, isAnalyzing,
                   jobId, posts, redirects, pushedResults, calls, posted, returned, dFailure>>

\* what the user interface leaves alone when only the lists change
AnalyzeFrame ==
    UNCHANGED <<dToken, analysisMode, dLoading, isAnalyzing, jobId, posts, redirects,
                pushedResults, calls, posted, returned, dFailure>>

(***************************************************************************)
(* fetchProviders, after the await.                                        *)
(***************************************************************************)
ProvidersResolved ==
    \E g \in gets, list \in ProviderLists :
      /\ g.op = "providers"
      /\ gets' = gets \ {g}
      /\ providers' = list
      /\ UNCHANGED <<dMounted, dPushedHome, userRepos, reposLoading, searchResults,
                     isSearching, issued, failed>>
      /\ AnalyzeFrame /\ UNCHANGED <<selectedRepo, customRepo, dError>>

\* fetchProviders, the catch: setProviders([])
ProvidersRejected ==
    \E g \in gets :
      /\ g.op = "providers"
      /\ gets' = gets \ {g}
      /\ providers' = {}
      /\ failed' = [id |-> g.id, op |-> g.op]
      /\ UNCHANGED <<dMounted, dPushedHome, userRepos, reposLoading, searchResults,
                     isSearching, issued>>
      /\ AnalyzeFrame /\ UNCHANGED <<selectedRepo, customRepo, dError>>

(***************************************************************************)
(* fetchUserRepos from the Refresh button (shown in mode your-repos,       *)
(* disabled while reposLoading), up to the await.                          *)
(***************************************************************************)
RefreshRepos ==
    /\ analysisMode = "your-repos"
    /\ ~reposLoading
    /\ ~Falsy(dToken)
    /\ issued < MaxGets
    /\ reposLoading' = TRUE
    /\ gets' = gets \cup {Get(issued + 1, "repos", <<>>)}
    /\ issued' = issued + 1
    /\ UNCHANGED <<dMounted, dPushedHome, userRepos, providers, searchResults, isSearching,
                   failed>>
    /\ AnalyzeFrame /\ UNCHANGED <<selectedRepo, customRepo, dError>>

\* fetchUserRepos, after the await: setUserRepos(resp.data.repos), finally
ReposResolved ==
    \E g \in gets, list \in RepoLists :
      /\ g.op = "repos"
      /\ gets' = gets \ {g}
      /\ userRepos' = list
      /\ reposLoading' = FALSE
      /\ UNCHANGED <<dMounted, dPushedHome, providers, searchResults, isSearching, issued,
                     failed>>
      /\ AnalyzeFrame /\ UNCHANGED <<selectedRepo, customRepo, dError>>

\* fetchUserRepos, the catch and finally
ReposRejected ==
    \E g \in gets :
      /\ g.op = "repos"
      /\ gets' = gets \ {g}
      /\ dError' = "Failed to load your repositories"
      /\ reposLoading' = FALSE
      /\ failed' = [id |-> g.id, op |-> g.op]
      /\ UNCHANGED <<dMounted, dPushedHome, userRepos, providers, searchResults,
                     isSearching, issued>>
      /\ AnalyzeFrame /\ UNCHANGED <<selectedRepo, customRepo>>

\* what the controls of the analysis card leave alone
ListsFrame ==
    UNCHANGED <<dMounted, dPushedHome, userRepos, reposLoading, providers, gets, issued,
                failed>>

(***************************************************************************)
(* The controls: an entry of the repository list (shown in mode your-repos *)
(* when the list is not loading), the mode toggle, the input.              *)
(***************************************************************************)
SelectRepo ==
    /\ analysisMode = "your-repos"
    /\ ~reposLoading
    /\ \E name \in userRepos \ {selectedRepo} : selectedRepo' = name
    /\ ListsFrame /\ AnalyzeFrame
    /\ UNCHANGED <<customRepo, dError, searchResults, isSearching>>

SetAnalysisMode ==
    /\ \E mode \in AnalysisModes \ {analysisMode} : analysisMode' = mode
    /\ ListsFrame
    /\ UNCHANGED <<dToken, selectedRepo, customRepo, dLoading, dError, isAnalyzing, jobId,
                   posts, redirects, pushedResults, calls, posted, returned, dFailure,
                   searchResults, isSearching>>

SetCustomRepo ==
    /\ analysisMode = "public-repo"
    /\ \E text \in TypedTexts \ {customRepo} : customRepo' = text
    /\ ListsFrame /\ AnalyzeFrame
    /\ UNCHANGED <<selectedRepo, dError, searchResults, isSearching>>

(***************************************************************************)
(* The search (Enter in the input, or the button next to it), up to the    *)
(* request.                                                                *)
(***************************************************************************)
Search ==
    /\ analysisMode = "public-repo"
    /\ issued < MaxGets
    /\ searchResults' = {}
    /\ isSearching' = TRUE
    /\ gets' = gets \cup {Get(issued + 1, "search", customRepo)}
    /\ issued' = issued + 1
    /\ UNCHANGED <<dMounted, dPushedHome, userRepos, reposLoading, providers, failed>>
    /\ AnalyzeFrame /\ UNCHANGED <<selectedRepo, customRepo, dError>>

\* the search, .then and .finally
SearchResolved ==
    \E g \in gets, found \in SUBSET SearchNames :
      /\ g.op = "search"
      /\ gets' = gets \ {g}
      /\ searchResults' = found
      /\ isSearching' = FALSE
      /\ UNCHANGED <<dMounted, dPushedHome, userRepos, reposLoading, providers, issued,
                     failed>>
      /\ AnalyzeFrame /\ UNCHANGED <<selectedRepo, customRepo, dError>>

\* the search, .catch and .finally
SearchRejected ==
    \E g \in gets :
      /\ g.op = "search"
      /\ gets' = gets \ {g}
      /\ dError' = "Search failed"
      /\ isSearching' = FALSE
      /\ failed' = [id |-> g.id, op |-> g.op]
      /\ UNCHANGED <<dMounted, dPushedHome, userRepos, reposLoading, providers,
                     searchResults, issued>>
      /\ AnalyzeFrame /\ UNCHANGED <<selectedRepo, customRepo>>

\* an entry of the search results (shown when not searching)
PickSearchResult ==
    /\ analysisMode = "public-repo"
    /\ ~isSearching
    /\ \E name \in searchResults :
         /\ customRepo' = name
         /\ searchResults' = {}
    /\ ListsFrame /\ AnalyzeFrame
    /\ UNCHANGED <<selectedRepo, dError, isSearching>>

\* the Start Analysis button: disabled={loading || !token}
StartDisabled_TokenOnly == Falsy(dToken)
StartDisabled == dLoading \/ Falsy(dToken)

(***************************************************************************)
(* The Start Analysis button: analyze.                                     *)
(***************************************************************************)
StartAnalysis ==
    /\ ~StartDisabled
    /\ Analyze
    /\ UNCHANGED uvars

(***************************************************************************)
(* The session: the pages of the client and what they do to localStorage.  *)
(***************************************************************************)
Pages == {"index", "callback", "dashboard", "results"}

\* the redirect parameters the callback page can receive
Queries == {[token |-> t, user |-> u] : t \in {Undefined, Tok}, u \in {Undefined, User}}

\* what localStorage can hold when the client is opened: the keys of the
\* last sign-in, if any, and the other keys the pages read or remove
InitStorages ==
    {[k \in StorageKeys |->
        IF k \notin present THEN Null
        ELSE IF k = "access_token" THEN Tok
        ELSE IF k = "user_avatar" THEN "https://avatars/ann.png"
        ELSE User] :
       present \in {base \cup extra :
                      base \in {{}, {"access_token", "user_login", "user_name"}},
                      extra \in SUBSET {"user_avatar", "user_email", "user_id"}}}

\* the page shown after router.push(pg) and the mount effect of pg: the
\* dashboard and the results page push "/" when there is no access_token
PageAfterMount(pg) ==
    IF pg \in {"dashboard", "results"} /\ Falsy(GetItem("access_token")) THEN "index" ELSE pg

(***************************************************************************)
(* The home page: the link to the backend's /auth/login; the sign-in ends  *)
(* with a redirect to a new callback page.                                 *)
(***************************************************************************)
SignIn ==
    /\ page = "index"
    /\ logins < MaxLogins
    /\ logins' = logins + 1
    /\ page' = "callback"
    /\ query' = NoQuery
    /\ cbStatus' = "processing"
    /\ cbError' = ""
    /\ cbTimers' = {}
    /\ UNCHANGED <<storage, signedOut>>

\* the keys the callback page stores, in the order of its setItem calls
CallbackWrites_NameFromToken(q) ==
    <<[key |-> "access_token", value |-> q.token],
      [key |-> "user_login", value |-> q.user],
      [key |-> "user_name", value |-> q.token]>>
CallbackWrites(q) ==
    <<[key |-> "access_token", value |-> q.token],
      [key |-> "user_login", value |-> q.user],
      [key |-> "user_name", value |-> q.user]>>

\* the storage after the first n writes of ws
RECURSIVE SetItems(_, _, _)
SetItems(st, ws, n) ==
    IF n = 0 THEN st
    ELSE [SetItems(st, ws, n - 1) EXCEPT ![ws[n].key] = ws[n].value]

(***************************************************************************)
(* The callback page: the effect on router.query, run when the router      *)
(* delivers the redirect parameters.  thrown = 0: no setItem call throws;  *)
(* thrown = n: the n-th setItem call throws (storage full or disabled).    *)
(***************************************************************************)
CallbackQuery ==
    /\ page = "callback"
    /\ query = NoQuery
    /\ \E q \in Queries \ {NoQuery} :
         /\ query' = q
         /\ IF Falsy(q.token) \/ Falsy(q.user)
              THEN UNCHANGED <<storage, cbStatus, cbError, cbTimers, signedOut>>
              ELSE \E thrown \in 0..3 :
                     IF thrown = 0
                       THEN /\ storage' = SetItems(storage, CallbackWrites(q), 3)
                            /\ cbStatus' = "success"
                            /\ cbTimers' = cbTimers \cup {[target |-> "dashboard"]}
                            /\ signedOut' = ""
                            /\ UNCHANGED cbError
                       ELSE /\ storage' = SetItems(storage, CallbackWrites(q), thrown - 1)
                            /\ cbStatus' = "error"
                            /\ cbError' = "The quota has been exceeded."
                            /\ cbTimers' = cbTimers \cup {[target |-> "index"]}
                            /\ UNCHANGED signedOut
    /\ UNCHANGED <<page, logins>>

(***************************************************************************)
(* The callback page: a setTimeout callback, router.push of its target.    *)
(***************************************************************************)
CallbackTimer ==
    \E t \in cbTimers :
      /\ cbTimers' = cbTimers \ {t}
      /\ page' = PageAfterMount(t.target)
      /\ UNCHANGED <<storage, query, cbStatus, cbError, logins, signedOut>>

(***************************************************************************)
(* The dashboard hands off to the results page; the results page goes back *)
(* to the dashboard.                                                       *)
(***************************************************************************)
OpenResults ==
    /\ page = "dashboard"
    /\ page' = PageAfterMount("results")
    /\ UNCHANGED <<storage, query, cbStatus, cbError, cbTimers, logins, signedOut>>

BackToDashboard ==
    /\ page = "results"
    /\ page' = PageAfterMount("dashboard")
    /\ UNCHANGED <<storage, query, cbStatus, cbError, cbTimers, logins, signedOut>>

(***************************************************************************)
(* handleLogout of the dashboard: localStorage.clear(), router.push("/").  *)
(***************************************************************************)
DashboardLogout ==
    /\ page = "dashboard"
    /\ storage' = NoStorage
    /\ page' = "index"
    /\ signedOut' = "dashboard"
    /\ UNCHANGED <<query, cbStatus, cbError, cbTimers, logins>>

\* the keys handleLogout of the results page removes
ResultsLogoutKeys == {"access_token", "user_email", "user_name", "user_id", "user_login"}

(***************************************************************************)
(* handleLogout of the results page: five removeItem calls,                *)
(* router.push('/').                                                       *)
(***************************************************************************)
ResultsLogout ==
    /\ page = "results"
    /\ storage' = [k \in StorageKeys |-> IF k \in ResultsLogoutKeys THEN Null ELSE storage[k]]
    /\ page' = "index"
    /\ signedOut' = "results"
    /\ UNCHANGED <<query, cbStatus, cbError, cbTimers, logins>>

\* the result fields while the model does not look at them
NoFields == [f \in ResultFieldNames |-> Undefined]

\* the results page is not open
IdleResults == InitResults /\ job_id = Undefined /\ InitActions /\ resultFields = NoFields

\* the dashboard is not open
IdleDashboard == InitDashboard /\ InitDashboardPage

(***************************************************************************)
(* The results page: a Results component from its construction on.         *)
(***************************************************************************)
Init ==
    /\ InitResults /\ InitActions /\ resultFields = NoFields
    /\ IdleDashboard
    /\ storage \in {NoStorage, SignedIn}
    /\ InitSessionAt("results")
    /\ InitStats

Next ==
    \/ (Mount /\ UNCHANGED <<dvars, uvars, avars, svars, cvars>>)
    \/ (RouterQuery /\ UNCHANGED <<dvars, uvars, avars, svars, cvars>>)
    \/ (Unmount /\ UNCHANGED <<dvars, uvars, avars, svars, cvars>>)
    \/ (Tick /\ UNCHANGED <<dvars, uvars, avars, svars, cvars>>)
    \/ (RespRunning /\ UNCHANGED <<dvars, uvars, avars, svars, cvars>>)
    \/ (RespError /\ UNCHANGED <<dvars, uvars, avars, svars, cvars>>)
    \/ (RespOther /\ UNCHANGED <<dvars, uvars, avars, svars, cvars>>)
    \/ (RespFailure /\ UNCHANGED <<dvars, uvars, avars, svars, cvars>>)

Spec == Init /\ [][Next]_vars

(***************************************************************************)
(* The analyze handler of the dashboard, called in any state of the        *)
(* component: the token, the mode and the locator fields are what the page *)
(* and the user have made them at the time of the call.                    *)
(***************************************************************************)
InitAnalyze ==
    /\ IdleResults
    /\ InitDashboardPage
    /\ storage = NoStorage
    /\ InitSessionAt("dashboard")
    /\ InitStats
    /\ dToken \in {Null, Tok}
    /\ analysisMode \in AnalysisModes
    /\ selectedRepo \in {""} \cup UserRepoNames
    /\ customRepo \in CustomRepoTexts
    /\ dLoading \in BOOLEAN
    /\ isAnalyzing = dLoading
    /\ jobId \in {Null, "a"}
    /\ dError \in {"", "Failed to load your repositories"}
    /\ posts = {}
    /\ redirects = {}
    /\ pushedResults = <<>>
    /\ calls = 0
    /\ posted = 0
    /\ returned = {}
    /\ dFailure = NoFailure

NextAnalyze ==
    \/ (Analyze /\ UNCHANGED <<rvars, hvars, uvars, avars, svars, cvars>>)
    \/ (AnalyzeResolved /\ UNCHANGED <<rvars, hvars, uvars, avars, svars, cvars>>)
    \/ (AnalyzeRedirect /\ UNCHANGED <<rvars, hvars, uvars, avars, svars, cvars>>)
    \/ (AnalyzeRejected /\ UNCHANGED <<rvars, hvars, uvars, avars, svars, cvars>>)

SpecAnalyze == InitAnalyze /\ [][NextAnalyze]_vars

\* the timer set by a successful submission fires (nothing of the model
\* unloads the page before it does)
FairSpecAnalyze ==
    SpecAnalyze
      /\ WF_vars(AnalyzeRedirect /\ UNCHANGED <<rvars, hvars, uvars, avars, svars, cvars>>)

(***************************************************************************)
(* The dashboard page: a Dashboard component from its construction on,     *)
(* driven through its controls.  Once the page has pushed another page     *)
(* the component is gone and nothing of it acts any more.                  *)
(***************************************************************************)
InitDashboardSpec ==
    /\ IdleResults
    /\ IdleDashboard
    /\ storage \in {NoStorage, SignedIn}
    /\ InitSessionAt("dashboard")
    /\ InitStats

NextDashboard ==
    \/ (DMount /\ UNCHANGED <<rvars, hvars, avars, svars, cvars>>)
    \/ (DashboardShown /\ ProvidersResolved /\ UNCHANGED <<rvars, hvars, avars, svars, cvars>>)
    \/ (DashboardShown /\ ProvidersRejected /\ UNCHANGED <<rvars, hvars, avars, svars, cvars>>)
    \/ (DashboardShown /\ RefreshRepos /\ UNCHANGED <<rvars, hvars, avars, svars, cvars>>)
    \/ (DashboardShown /\ ReposResolved /\ UNCHANGED <<rvars, hvars, avars, svars, cvars>>)
    \/ (DashboardShown /\ ReposRejected /\ UNCHANGED <<rvars, hvars, avars, svars, cvars>>)
    \/ (DashboardShown /\ SelectRepo /\ UNCHANGED <<rvars, hvars, avars, svars, cvars>>)
    \/ (DashboardShown /\ SetAnalysisMode /\ UNCHANGED <<rvars, hvars, avars, svars, cvars>>)
    \/ (DashboardShown /\ SetCustomRepo /\ UNCHANGED <<rvars, hvars, avars, svars, cvars>>)
    \/ (DashboardShown /\ Search /\ UNCHANGED <<rvars, hvars, avars, svars, cvars>>)
    \/ (DashboardShown /\ SearchResolved /\ UNCHANGED <<rvars, hvars, avars, svars, cvars>>)
    \/ (DashboardShown /\ SearchRejected /\ UNCHANGED <<rvars, hvars, avars, svars, cvars>>)
    \/ (DashboardShown /\ PickSearchResult /\ UNCHANGED <<rvars, hvars, avars, svars, cvars>>)
    \/ (DashboardShown /\ StartAnalysis /\ UNCHANGED <<rvars, hvars, avars, svars, cvars>>)
    \/ (DashboardShown /\ AnalyzeResolved /\ UNCHANGED <<rvars, hvars, uvars, avars, svars, cvars>>)
    \/ (DashboardShown /\ AnalyzeRejected /\ UNCHANGED <<rvars, hvars, uvars, avars, svars, cvars>>)
    \/ (AnalyzeRedirect /\ UNCHANGED <<rvars, hvars, uvars, avars, svars, cvars>>)

SpecDashboard == InitDashboardSpec /\ [][NextDashboard]_vars

(***************************************************************************)
(* The results page showing the result of a finished job: the poll of job  *)
(* a has stored a completion.                                              *)
(***************************************************************************)
InitResultView ==
    /\ job_id = "a"
    /\ result = <<Body("done", Undefined, 1)>>
    /\ loading = FALSE
    /\ error = ""
    /\ analysisProgress = 100
    /\ token = GetItem("access_token")
    /\ isMounted = TRUE
    /\ autoRefresh = TRUE
    /\ alive = TRUE
    /\ effectLive = TRUE
    /\ chains = {}
    /\ nextId = 2
    /\ pushedHome = Falsy(GetItem("access_token"))
    /\ cancelled = {}
    /\ last = Resolved(Body("done", Undefined, 1))
    /\ lastJob = "a"
    /\ fetchCount = 1
    /\ errorSets = 0
    /\ navCount = 0

(***************************************************************************)
(* The actions of the results page, driven through their buttons.          *)
(***************************************************************************)
InitActionsSpec ==
    /\ storage \in {NoStorage, SignedIn}
    /\ InitResultView
    /\ InitActions
    /\ resultFields \in ResultShapes
    /\ IdleDashboard
    /\ InitSessionAt("results")
    /\ InitStats

NextActions ==
    \/ (ClickCreateIssue /\ UNCHANGED <<dvars, uvars, svars, cvars>>)
    \/ (ClickCreatePR /\ UNCHANGED <<dvars, uvars, svars, cvars>>)
    \/ (ClickCreateEnhancementPR /\ UNCHANGED <<dvars, uvars, svars, cvars>>)
    \/ (ClickCreateDeploymentPR /\ UNCHANGED <<dvars, uvars, svars, cvars>>)
    \/ (ClickDownload /\ UNCHANGED <<dvars, uvars, svars, cvars>>)
    \/ (ActionResolved /\ UNCHANGED <<dvars, uvars, svars, cvars>>)
    \/ (ActionRejected /\ UNCHANGED <<dvars, uvars, svars, cvars>>)
    \/ (DownloadResolved /\ UNCHANGED <<dvars, uvars, svars, cvars>>)
    \/ (DownloadRejected /\ UNCHANGED <<dvars, uvars, svars, cvars>>)

SpecActions == InitActionsSpec /\ [][NextActions]_vars

(***************************************************************************)
(* The handlers of the actions, called in any state of the component: with *)
(* or without a token, with or without a result, whatever its fields.      *)
(***************************************************************************)
InitHandlers ==
    /\ storage \in {NoStorage, SignedIn}
    /\ \E r \in {<<>>, <<Body("done", Undefined, 1)>>} :
         /\ result = r
         /\ job_id = "a"
         /\ loading = FALSE
         /\ error = ""
         /\ analysisProgress = 100
         /\ token = GetItem("access_token")
         /\ isMounted = TRUE
         /\ autoRefresh = TRUE
         /\ alive = TRUE
         /\ effectLive = TRUE
         /\ chains = {}
         /\ nextId = 2
         /\ pushedHome = Falsy(GetItem("access_token"))
         /\ cancelled = {}
         /\ last = Resolved(Body("done", Undefined, 1))
         /\ lastJob = "a"
         /\ fetchCount = 1
         /\ errorSets = 0
         /\ navCount = 0
    /\ InitActions
    /\ resultFields \in {shape \in ResultShapes : shape["hosting_config"] # "diff"}
    /\ IdleDashboard
    /\ InitSessionAt("results")
    /\ InitStats

NextHandlers ==
    \/ ((\E issue \in Issues : CreateIssue(issue)) /\ UNCHANGED <<dvars, uvars, svars, cvars>>)
    \/ (CreatePR /\ UNCHANGED <<dvars, uvars, svars, cvars>>)
    \/ (CreateEnhancementPR /\ UNCHANGED <<dvars, uvars, svars, cvars>>)
    \/ (CreateDeploymentPR /\ UNCHANGED <<dvars, uvars, svars, cvars>>)
    \/ (ActionResolved /\ UNCHANGED <<dvars, uvars, svars, cvars>>)
    \/ (ActionRejected /\ UNCHANGED <<dvars, uvars, svars, cvars>>)

SpecHandlers == InitHandlers /\ [][NextHandlers]_vars

(***************************************************************************)
(* The session: the pages of the client from the home page on.             *)
(***************************************************************************)
InitSession ==
    /\ IdleResults
    /\ IdleDashboard
    /\ storage \in InitStorages
    /\ InitSessionAt("index")
    /\ InitStats

NextSession ==
    \/ (SignIn /\ UNCHANGED <<rvars, hvars, dvars, uvars, avars, cvars>>)
    \/ (CallbackQuery /\ UNCHANGED <<rvars, hvars, dvars, uvars, avars, cvars>>)
    \/ (CallbackTimer /\ UNCHANGED <<rvars, hvars, dvars, uvars, avars, cvars>>)
    \/ (OpenResults /\ UNCHANGED <<rvars, hvars, dvars, uvars, avars, cvars>>)
    \/ (BackToDashboard /\ UNCHANGED <<rvars, hvars, dvars, uvars, avars, cvars>>)
    \/ (DashboardLogout /\ UNCHANGED <<rvars, hvars, dvars, uvars, avars, cvars>>)
    \/ (ResultsLogout /\ UNCHANGED <<rvars, hvars, dvars, uvars, avars, cvars>>)

SpecSession == InitSession /\ [][NextSession]_vars

(***************************************************************************)
(* The derived statistics: a render of the results page on any result the  *)
(* backend can deliver, and before there is a result.                      *)
(***************************************************************************)
InitStatsSpec ==
    /\ storage = SignedIn
    /\ \/ InitResultView /\ DeliveredResultData
       \/ InitResults /\ job_id = "a" /\ resultData = NoResultData
    /\ stats = NotRendered
    /\ InitActions
    /\ resultFields = NoFields
    /\ IdleDashboard
    /\ InitSessionAt("results")

NextStats ==
    \/ (Render /\ UNCHANGED <<dvars, uvars, svars>>)

SpecStats == InitStatsSpec /\ [][NextStats]_vars

(***************************************************************************)
(* The results page navigated from job to job: a Results component opened  *)
(* by a signed-in user for job a, whose router.query.job_id changes up to  *)
(* MaxRevisits times while it stays mounted.                               *)
(***************************************************************************)
InitRevisit ==
    /\ InitResults /\ job_id = "a"
    /\ InitActions /\ resultFields = NoFields
    /\ IdleDashboard
    /\ storage = SignedIn
    /\ InitSessionAt("results")
    /\ InitStats

NextRevisit ==
    \/ (Mount /\ UNCHANGED <<dvars, uvars, avars, svars, cvars>>)
    \/ (RouterQueryUpTo(MaxRevisits) /\ fetchCount' <= MaxPolls
          /\ UNCHANGED <<dvars, uvars, avars, svars, cvars>>)
    \/ (Tick /\ fetchCount' <= MaxPolls /\ UNCHANGED <<dvars, uvars, avars, svars, cvars>>)
    \/ (RespRunning /\ UNCHANGED <<dvars, uvars, avars, svars, cvars>>)
    \/ (RespError /\ UNCHANGED <<dvars, uvars, avars, svars, cvars>>)
    \/ (RespOther /\ UNCHANGED <<dvars, uvars, avars, svars, cvars>>)
    \/ (RespFailure /\ UNCHANGED <<dvars, uvars, avars, svars, cvars>>)

SpecRevisit == InitRevisit /\ [][NextRevisit]_vars

(***************************************************************************)
(* The results page from its construction on, with its poller and its      *)
(* actions: a Results component opened for job a, polled up to             *)
(* MaxPagePolls times, whose result carries the fields of every action or  *)
(* lacks the deployment patch.                                             *)
(***************************************************************************)
PageResultShapes ==
    {shape \in ResultShapes :
       /\ shape["patch"] = "diff" /\ shape["enhancement_patch"] = "diff"
       /\ shape["hosting_config"] = "diff"}

InitPage ==
    /\ InitResults /\ job_id = "a"
    /\ InitActions
    /\ resultFields \in PageResultShapes
    /\ IdleDashboard
    /\ storage \in {NoStorage, SignedIn}
    /\ InitSessionAt("results")
    /\ InitStats

NextPage ==
    \/ (Mount /\ UNCHANGED <<dvars, uvars, avars, svars, cvars>>)
    \/ (Tick /\ fetchCount' <= MaxPagePolls /\ UNCHANGED <<dvars, uvars, avars, svars, cvars>>)
    \/ (RespRunning /\ UNCHANGED <<dvars, uvars, avars, svars, cvars>>)
    \/ (RespError /\ UNCHANGED <<dvars, uvars, avars, svars, cvars>>)
    \/ (RespOther /\ UNCHANGED <<dvars, uvars, avars, svars, cvars>>)
    \/ (RespFailure /\ UNCHANGED <<dvars, uvars, avars, svars, cvars>>)
    \/ (ClickCreateIssue /\ UNCHANGED <<dvars, uvars, svars, cvars>>)
    \/ (ClickCreatePR /\ UNCHANGED <<dvars, uvars, svars, cvars>>)
    \/ (ClickCreateEnhancementPR /\ UNCHANGED <<dvars, uvars, svars, cvars>>)
    \/ (ClickCreateDeploymentPR /\ UNCHANGED <<dvars, uvars, svars, cvars>>)
    \/ (ClickDownload /\ UNCHANGED <<dvars, uvars, svars, cvars>>)
    \/ (ActionResolved /\ UNCHANGED <<dvars, uvars, svars, cvars>>)
    \/ (ActionRejected /\ UNCHANGED <<dvars, uvars, svars, cvars>>)
    \/ (DownloadResolved /\ UNCHANGED <<dvars, uvars, svars, cvars>>)
    \/ (DownloadRejected /\ UNCHANGED <<dvars, uvars, svars, cvars>>)

SpecPage == InitPage /\ [][NextPage]_vars

(***************************************************************************)
(* The submission of an analysis from the dashboard: a Dashboard component *)
(* from its construction on, its repository list loaded, the locator       *)
(* chosen through the controls, analyze called through the Start Analysis  *)
(* button.                                                                 *)
(***************************************************************************)
NextSubmit ==
    \/ (DMount /\ UNCHANGED <<rvars, hvars, avars, svars, cvars>>)
    \/ (DashboardShown /\ ReposResolved /\ UNCHANGED <<rvars, hvars, avars, svars, cvars>>)
    \/ (DashboardShown /\ SelectRepo /\ UNCHANGED <<rvars, hvars, avars, svars, cvars>>)
    \/ (DashboardShown /\ SetAnalysisMode /\ UNCHANGED <<rvars, hvars, avars, svars, cvars>>)
    \/ (DashboardShown /\ SetCustomRepo /\ UNCHANGED <<rvars, hvars, avars, svars, cvars>>)
    \/ (DashboardShown /\ StartAnalysis /\ UNCHANGED <<rvars, hvars, avars, svars, cvars>>)
    \/ (DashboardShown /\ AnalyzeResolved /\ UNCHANGED <<rvars, hvars, uvars, avars, svars, cvars>>)
    \/ (DashboardShown /\ AnalyzeRejected /\ UNCHANGED <<rvars, hvars, uvars, avars, svars, cvars>>)
    \/ (AnalyzeRedirect /\ UNCHANGED <<rvars, hvars, uvars, avars, svars, cvars>>)

SpecSubmit == InitDashboardSpec /\ [][NextSubmit]_vars

(***************************************************************************)
(* Vocabulary of the properties of the poller.                             *)
(***************************************************************************)
\* the closure c receives the response of its request in this step
Settles(c) == c \in chains /\ c.phase = "fetch" /\ c \notin chains'

\* the closure c continues (a timer or a request of c is outstanding)
Continues(c) == \E d \in chains' : d.id = c.id

\* the page is mounted and no cleanup of the polling effect has run: one
\* fetchResults closure at most
SinglePoll == alive /\ autoRefresh

\* the page is mounted and the poller has applied no terminal outcome
AllRunning == alive /\ result = <<>> /\ error = ""

\* a string-or-undefined value that is there and not empty
Present(x) == x \notin {Null, Undefined, ""}

ProgressValues == {0, 10, 20, 30, 40, 50, 60, 70, 80, 90, 100}

(***************************************************************************)
(* C1: after the cleanup of the polling effect has run, a request that was *)
(* in flight or a tick that was scheduled at that moment applies none of   *)
(* its effects: loading, analysisProgress, error and result stay as they   *)
(* are and the closure schedules nothing further.                          *)
(***************************************************************************)
C1_NoStaleEffects ==
    [][\A c \in chains :
         (c.id \in cancelled /\ c \notin chains')
           => (/\ UNCHANGED <<loading, analysisProgress, error, result>>
               /\ ~Continues(c))]_vars

(***************************************************************************)
(* C2: ticks of a job are strictly sequential: at no time are two requests *)
(* or ticks for the same job outstanding.                                  *)
(***************************************************************************)
C2_SequentialTicks ==
    \A c, d \in chains : c.job = d.job => c = d

(***************************************************************************)
(* C3, as stated: in a poll whose every tick has returned running, each    *)
(* running response raises analysisProgress by exactly 10, and             *)
(* analysisProgress never exceeds 90.                                      *)
(***************************************************************************)
C3_StrictlyPlusTen ==
    [][\A c \in chains :
         (SinglePoll /\ AllRunning /\ Settles(c) /\ last'.ok /\ last'.data.status = "running")
           => (analysisProgress' = analysisProgress + 10 /\ analysisProgress' <= 90)]_vars

(***************************************************************************)
(* C3, amended: while every tick has returned running, each running        *)
(* response raises analysisProgress by exactly 10 as long as it is below   *)
(* 90 and leaves it at 90 once it is there; it never exceeds 90.           *)
(***************************************************************************)
C3_PlusTenCappedAt90 ==
    [][\A c \in chains :
         (AllRunning /\ Settles(c) /\ last'.ok /\ last'.data.status = "running")
           => /\ analysisProgress < 90 => analysisProgress' = analysisProgress + 10
              /\ analysisProgress >= 90 => analysisProgress' = analysisProgress
              /\ analysisProgress' <= 90]_vars

\* ten running responses in a row: the tenth one found the progress at 90
C3_Witness ==
    /\ AllRunning /\ SinglePoll
    /\ fetchCount = 10
    /\ analysisProgress = 90
    /\ \E c \in chains : c.phase = "timer"

(***************************************************************************)
(* C4: after the responses running, running, error of one poll the error   *)
(* state has been set exactly once, to the message carrying the backend's  *)
(* error text, progress is 0, loading is false, and nothing is outstanding *)
(* or issued afterwards.                                                   *)
(***************************************************************************)
C4_AfterRunningRunningError ==
    /\ [](( /\ SinglePoll
            /\ fetchCount = 3
            /\ last.ok /\ last.data.status = "error" )
          => ( /\ errorSets = 1
               /\ error = "Analysis failed: " \o Str(last.data.error)
               /\ analysisProgress = 0
               /\ loading = FALSE
               /\ chains = {} ))
    /\ [][( /\ SinglePoll /\ SinglePoll'
            /\ last.ok /\ last.data.status = "error" )
          => UNCHANGED <<fetchCount, chains, error, errorSets, loading, analysisProgress>>]_vars

C4_Witness ==
    /\ SinglePoll
    /\ fetchCount = 3
    /\ last.ok /\ last.data.status = "error" /\ last.data.error = "boom"
    /\ error = "Analysis failed: boom"

(***************************************************************************)
(* C5: after the responses running, done-payload of one poll the progress  *)
(* is 100, loading is false, result is exactly the body received last, and *)
(* no tick is scheduled.                                                   *)
(***************************************************************************)
C5_AfterRunningDone ==
    ( /\ SinglePoll
      /\ fetchCount = 2
      /\ last.ok /\ last.data.status = "done" )
    => ( /\ analysisProgress = 100
         /\ loading = FALSE
         /\ result = <<last.data>>
         /\ chains = {} )

C5_Witness ==
    /\ SinglePoll
    /\ fetchCount = 2
    /\ last.ok /\ last.data.status = "done" /\ last.data.payload = 2
    /\ result = <<Body("done", Undefined, 2)>>

(***************************************************************************)
(* C6: a rejected status request, on any tick, sets error to the server's  *)
(* detail when there is one, else to the transport message, else to        *)
(* 'Failed to fetch results'; loading becomes false, progress 0, and the   *)
(* closure issues no retry.                                                *)
(***************************************************************************)
C6_TransportFailureIsTerminal ==
    /\ [][\A c \in chains :
            (alive /\ Settles(c) /\ ~last'.ok)
              => /\ Present(last'.detail) => error' = last'.detail
                 /\ (~Present(last'.detail) /\ Present(last'.message))
                      => error' = last'.message
                 /\ (~Present(last'.detail) /\ ~Present(last'.message))
                      => error' = "Failed to fetch results"
                 /\ loading' = FALSE
                 /\ analysisProgress' = 0
                 /\ ~Continues(c)
                 /\ fetchCount' = fetchCount]_vars
    /\ []((SinglePoll /\ ~last.ok /\ fetchCount > 0 /\ last.detail # Null)
            => (chains = {} /\ loading = FALSE /\ analysisProgress = 0 /\ error # ""))

\* the third request of a poll was rejected with a server detail
C6_Witness ==
    /\ SinglePoll
    /\ fetchCount = 3
    /\ ~last.ok /\ last.detail = "job not found"
    /\ error = "job not found"
    /\ chains = {}

(***************************************************************************)
(* C7: analysisProgress is always one of 0, 10, ..., 100; a running        *)
(* response never lowers it; and every change of it on the mounted page is *)
(* the +10 capped at 90 of a running response, the reset to 0 of an error  *)
(* or a rejected request, or the jump to 100 of a completion.              *)
(***************************************************************************)
C7_ProgressDiscipline ==
    /\ [](analysisProgress \in ProgressValues)
    /\ [][\A c \in chains :
            (alive /\ Settles(c) /\ last'.ok /\ last'.data.status = "running")
              => analysisProgress' >= analysisProgress]_vars
    /\ [][(alive' /\ analysisProgress' # analysisProgress)
            => \/ /\ last'.ok /\ last'.data.status = "running"
                  /\ analysisProgress' = analysisProgress + 10
                  /\ analysisProgress' <= 90
               \/ /\ (~last'.ok \/ last'.data.status = "error")
                  /\ analysisProgress' = 0
               \/ /\ last'.ok /\ last'.data.status \notin {"running", "error"}
                  /\ analysisProgress' = 100]_vars

(***************************************************************************)
(* C8: once the page has reached a terminal state of its job (the last     *)
(* response was an error, a completion or a failure of a request for the   *)
(* current job_id, and the page is not loading), then for as long as       *)
(* job_id stays the same it never goes back to loading and the stored      *)
(* result is never replaced.                                               *)
(***************************************************************************)
C8_TerminalIsFinal ==
    [][( /\ alive /\ alive' /\ job_id' = job_id
         /\ lastJob = job_id
         /\ ~(last.ok /\ last.data.status = "running")
         /\ loading = FALSE
         /\ (result # <<>> \/ error # "") )
       => (loading' = FALSE /\ result' = result)]_vars

(***************************************************************************)
(* C9: a response whose status is neither running nor error, or that has   *)
(* no status, is a completion: the whole body becomes the result, progress *)
(* becomes 100, loading false, and the closure stops.                      *)
(***************************************************************************)
C9_OtherStatusCompletes ==
    [][\A c \in chains :
         (alive /\ Settles(c) /\ last'.ok /\ last'.data.status \notin {"running", "error"})
           => /\ result' = <<last'.data>>
              /\ analysisProgress' = 100
              /\ loading' = FALSE
              /\ ~Continues(c)]_vars

\* a body without a status field, and one with an unknown status, were stored
C9_Witness ==
    /\ alive
    /\ last.ok /\ last.data.status \in {Undefined, "queued"}
    /\ result = <<last.data>>
    /\ analysisProgress = 100
    /\ loading = FALSE

(***************************************************************************)
(* C10: a call of analyze with no credential, or in mode your-repos with   *)
(* an empty selectedRepo, or in mode public-repo with a customRepo that is *)
(* empty or only whitespace, posts no request and sets an error message;   *)
(* loading, isAnalyzing, jobId and the locator fields stay as they are.    *)
(***************************************************************************)
C10_LocalRejection ==
    [][( /\ calls' # calls
         /\ \/ dToken = Null
            \/ analysisMode = "your-repos" /\ selectedRepo = ""
            \/ /\ analysisMode = "public-repo"
               /\ \A i \in 1..Len(customRepo) : customRepo[i] \in Whitespace )
       => ( /\ posts' = posts /\ posted' = posted
            /\ dError' \in { "Not authenticated. Please login first.",
                             "Please select a repository",
                             "Please enter a public repository (owner/repo)" }
            /\ UNCHANGED <<dLoading, isAnalyzing, jobId, selectedRepo, customRepo>> )]_vars

\* a call with a credential and a whitespace-only public repository was rejected
C10_Witness ==
    /\ calls > 0 /\ posted = 0
    /\ dToken = Tok
    /\ analysisMode = "public-repo"
    /\ customRepo = <<" ", "\t">>
    /\ dError = "Please enter a public repository (owner/repo)"

(***************************************************************************)
(* Vocabulary of the properties of the analyze handler.                    *)
(***************************************************************************)
\* this step is a call of analyze that posts a request
Posts == posted' # posted

\* this step is a call of analyze that the local validation rejects
RejectsLocally == calls' # calls /\ posted' = posted

\* this step is the success path of analyze (the request was answered)
Succeeds == returned' # returned

\* this step is the catch of analyze (the request failed)
Fails == dFailure' # dFailure

\* the text contains the marker 429
HasMarker(text) ==
    \E i \in 1..(Len(text) - 2) : text[i] = "4" /\ text[i + 1] = "2" /\ text[i + 2] = "9"

(***************************************************************************)
(* C11: every request analyze posts carries exactly one locator form, the  *)
(* one of the mode active at the call: in mode your-repos it goes to       *)
(* /api/analyze-repo with repo_full_name = selectedRepo and no repo_url,   *)
(* in mode public-repo to /api/analyze with repo_url = customRepo and no   *)
(* repo_full_name.                                                         *)
(***************************************************************************)
C11_OneLocatorForm ==
    /\ [](\A p \in posts : Len(p.req.repo_full_name) + Len(p.req.repo_url) = 1)
    /\ [][Posts =>
            \E p \in posts' \ posts :
              /\ analysisMode = "your-repos" =>
                   /\ p.req.endpoint = "/api/analyze-repo"
                   /\ p.req.repo_full_name = <<selectedRepo>>
                   /\ p.req.repo_url = <<>>
              /\ analysisMode = "public-repo" =>
                   /\ p.req.endpoint = "/api/analyze"
                   /\ p.req.repo_url = <<customRepo>>
                   /\ p.req.repo_full_name = <<>>]_vars

\* a public repository was posted while a repository of the list was selected
C11_Witness ==
    /\ analysisMode = "public-repo"
    /\ selectedRepo = "me/app"
    /\ \E p \in posts :
         /\ p.req.endpoint = "/api/analyze"
         /\ p.req.repo_url = <<customRepo>>
         /\ customRepo = <<" ", "o", "/", "r">>

(***************************************************************************)
(* C12: whenever analyze posts an owned-repository request, its            *)
(* repo_full_name is the full_name of an entry of the repository list as   *)
(* the list stands at that moment, also when Refresh has replaced the list *)
(* since the repository was selected.                                      *)
(***************************************************************************)
C12_OwnedRepoInList ==
    [][Posts =>
         \A p \in posts' \ posts :
           p.req.repo_full_name # <<>> => p.req.repo_full_name[1] \in userRepos]_vars

(***************************************************************************)
(* C13: analyze clears the locator fields when, and only when, a           *)
(* submission succeeds: the success path leaves selectedRepo and customRepo*)
(* empty; a local rejection and a failed post leave both as they were; and *)
(* no other step of analyze changes them.                                  *)
(***************************************************************************)
C13_ClearOnSuccessOnly ==
    [][ /\ Succeeds => (selectedRepo' = "" /\ customRepo' = <<>>)
        /\ RejectsLocally => UNCHANGED <<selectedRepo, customRepo>>
        /\ Fails => UNCHANGED <<selectedRepo, customRepo>>
        /\ ~Succeeds => UNCHANGED <<selectedRepo, customRepo>> ]_vars

\* the selected repository was posted, the post succeeded, the field is empty
C13_Witness ==
    /\ analysisMode = "your-repos"
    /\ posted = 1 /\ posts = {}
    /\ returned # {}
    /\ selectedRepo = ""

(***************************************************************************)
(* C14: when the submission fails with HTTP status 429, or with a detail   *)
(* string (the server's detail, else the transport message) that contains  *)
(* 429, the error state becomes the rate-limit message; for every other    *)
(* failure it becomes the server's detail (as JSON text when it is an      *)
(* object), else the transport message, else 'Analysis failed', and never  *)
(* the rate-limit message.                                                 *)
(***************************************************************************)
C14_RateLimitMessage ==
    [][Fails =>
         LET e == dFailure'
             text == IF Present(e.detail) THEN e.detail
                     ELSE IF Present(e.message) THEN e.message
                     ELSE "Analysis failed"
             marked == text # DetailObject /\ HasMarker(Chars(text))
         IN  IF e.status = 429 \/ marked
               THEN dError' = RateLimitMessage
               ELSE /\ dError' # RateLimitMessage
                    /\ dError' = (IF text = DetailObject
                                    THEN "[{\"msg\":\"field required\"}]" ELSE text)]_vars

\* a failure with status 500 whose detail contains 429 gave the rate-limit message
C14_Witness ==
    /\ dFailure.status = 500
    /\ dFailure.detail = "quota 429"
    /\ dError = RateLimitMessage

(***************************************************************************)
(* C15: the success path of analyze stores the job id the backend returned *)
(* and sets the timer whose callback opens the results view for exactly    *)
(* that job id; analyze opens the results view only from such a timer, so  *)
(* never without a successful submission; and the timer does fire.         *)
(***************************************************************************)
C15_HandOffToResults ==
    /\ [][Succeeds =>
            \E r \in returned' \ returned : jobId' = r.job /\ r \in redirects']_vars
    /\ [][pushedResults' # pushedResults =>
            \E r \in redirects \cap returned :
              /\ r \notin redirects'
              /\ pushedResults' = Append(pushedResults, r.job)]_vars
    /\ [](Len(pushedResults) <= Cardinality(returned))
    /\ \A i \in 1..MaxCalls, j \in Jobs :
         ([post |-> i, job |-> j] \in redirects)
           ~> (\E k \in 1..Len(pushedResults) : pushedResults[k] = j)

\* two submissions were answered with different job ids; the results view
\* was opened for the first one after the second one had been stored
C15_Witness ==
    /\ returned = {[post |-> 1, job |-> "a"], [post |-> 2, job |-> "b"]}
    /\ jobId = "b"
    /\ pushedResults = <<"a">>

(***************************************************************************)
(* Vocabulary of the properties of the actions of the results page.        *)
(***************************************************************************)
PROps == {"pr", "enhancement", "deployment"}

FlagOps == {"issue", "pr", "enhancement", "deployment"}

\* the in-flight flags, by action
Flags ==
    [op \in FlagOps |->
       CASE op = "issue" -> creatingIssue
         [] op = "pr" -> creatingPR
         [] op = "enhancement" -> creatingEnhancementPR
         [] op = "deployment" -> creatingDeploymentPR]

\* the field of result a PR creation needs, and whether the result has it
NeededField ==
    [op \in PROps |->
       CASE op = "pr" -> "patch"
         [] op = "enhancement" -> "enhancement_patch"
         [] op = "deployment" -> "deployment_patch"]

HasField(op) == result # <<>> /\ Present(resultFields[NeededField[op]])

\* the requests this step issues, and the requests that settle in it
Issued == requests' \ requests

Settled == requests \ requests'

(***************************************************************************)
(* C16: createPR, createEnhancementPR and createDeploymentPR issue their   *)
(* request only if there is a credential and the result has patch,         *)
(* enhancement_patch or deployment_patch respectively; otherwise the call  *)
(* sets a validation error, issues no request and sets no in-flight flag,  *)
(* and without a credential the error is the 'Not authenticated' message   *)
(* whether or not the patch is there.                                      *)
(***************************************************************************)
C16_PRPreconditions ==
    /\ [][\A r \in Issued : r.op \in PROps => (Present(token) /\ HasField(r.op))]_vars
    /\ [][\A op \in PROps :
            called' = op =>
              IF ~Present(token)
                THEN /\ error' = "Not authenticated. Please login first."
                     /\ Issued = {}
                     /\ Flags' = Flags
              ELSE IF ~HasField(op)
                THEN /\ error' \in {"No patch available",
                                    "No enhancement suggestions available",
                                    "No deployment configuration available"}
                     /\ (op = "pr") = (error' = "No patch available")
                     /\ (op = "deployment") = (error' = "No deployment configuration available")
                     /\ Issued = {}
                     /\ Flags' = Flags
              ELSE \E r \in Issued : r.op = op]_vars

\* createPR was called without a credential on a result that has a patch
C16_Witness ==
    /\ called = "pr"
    /\ token = Null
    /\ result # <<>> /\ resultFields["patch"] = "diff"
    /\ error = "Not authenticated. Please login first."
    /\ requests = {}
    /\ ~creatingPR

(***************************************************************************)
(* C17: no action is started while its own in-flight flag is set, and at   *)
(* no time are two requests of the same action (create issue, from         *)
(* whatever issue entry, create fix PR, create enhancement PR, create      *)
(* deployment PR) outstanding.                                             *)
(***************************************************************************)
C17_OneRequestPerAction ==
    /\ [](\A r1, r2 \in requests : (r1.op = r2.op /\ r1.op \in FlagOps) => r1 = r2)
    /\ [][\A r \in Issued : r.op \in FlagOps => ~Flags[r.op]]_vars

\* an issue was created from one entry, and after that request had settled
\* another create-issue request was started
C17_Witness ==
    /\ settled.op = "issue"
    /\ creatingIssue
    /\ \E r \in requests : r.op = "issue" /\ r.id > settled.id

(***************************************************************************)
(* C18: the in-flight flags are independent: a flag changes only in a step *)
(* that starts or finishes its own action, such a step changes no other    *)
(* flag, and an action whose flag is clear can be started whatever         *)
(* requests of other actions are outstanding.                              *)
(***************************************************************************)
C18_IndependentFlags ==
    /\ [][\A op \in FlagOps :
            Flags'[op] # Flags[op] =>
              /\ \E r \in Issued \cup Settled : r.op = op
              /\ \A other \in FlagOps \ {op} : Flags'[other] = Flags[other]]_vars
    /\ []((ResultShown /\ sent < MaxSent /\ Present(token)) =>
            /\ ~creatingIssue => ENABLED ClickCreateIssue
            /\ (~creatingPR /\ HasField("pr")) => ENABLED ClickCreatePR
            /\ (~creatingEnhancementPR /\ HasField("enhancement"))
                 => ENABLED ClickCreateEnhancementPR
            /\ (~creatingDeploymentPR /\ Present(resultFields["hosting_config"]))
                 => ENABLED ClickCreateDeploymentPR)

\* the enhancement PR has finished while the requests of create issue and
\* create fix PR are outstanding
C18_Witness ==
    /\ settled.op = "enhancement"
    /\ creatingIssue /\ creatingPR /\ ~creatingEnhancementPR
    /\ \E r1, r2 \in requests : r1.op = "issue" /\ r2.op = "pr"

(***************************************************************************)
(* C19: every failure of a network operation sets a non-empty error state: *)
(* on the dashboard, a failed repository list fetch, provider list fetch,  *)
(* search or analysis submission leaves error non-empty.                   *)
(***************************************************************************)
C19_FailuresSetError ==
    [][(failed' # failed \/ Fails) => dError' # ""]_vars

(***************************************************************************)
(* C20: after sign-out from the dashboard or from the results page no      *)
(* session key is left in localStorage: access_token, user_login,          *)
(* user_name, user_avatar, user_email and user_id are all absent.          *)
(***************************************************************************)
C20_SignOutClearsSession ==
    signedOut # "" => \A k \in StorageKeys : storage[k] = Null

(***************************************************************************)
(* Vocabulary of the properties of the callback page.                      *)
(***************************************************************************)
\* this step is the effect of the callback page receiving redirect parameters
Receives_Query == query = NoQuery /\ query' # NoQuery

\* the keys the callback page writes
CallbackKeys == {"access_token", "user_login", "user_name"}

(***************************************************************************)
(* C21, as stated: when the callback page receives both token and user,    *)
(* storage afterwards holds access_token = token and user_login =          *)
(* user_name = user, the status is success and the redirect to the         *)
(* dashboard is scheduled; when either parameter is missing the callback   *)
(* writes nothing to storage and schedules no redirect.                    *)
(***************************************************************************)
C21_CallbackStores ==
    [][Receives_Query =>
         IF Present(query'.token) /\ Present(query'.user)
           THEN /\ storage'["access_token"] = query'.token
                /\ storage'["user_login"] = query'.user
                /\ storage'["user_name"] = query'.user
                /\ cbStatus' = "success"
                /\ cbTimers' = cbTimers \cup {[target |-> "dashboard"]}
           ELSE /\ storage' = storage
                /\ cbTimers' = cbTimers
                /\ cbStatus' = cbStatus]_vars

(***************************************************************************)
(* C21, amended: when the callback page receives both token and user,      *)
(* then either every write to storage goes through, storage afterwards     *)
(* holds access_token = token and user_login = user_name = user, the       *)
(* status is success and the redirect to the dashboard is scheduled; or a  *)
(* write to storage throws, the status is error with a non-empty message,  *)
(* the redirect to the home page is scheduled and none to the dashboard.   *)
(* In both cases no other key of storage changes.  When either parameter   *)
(* is missing the callback writes nothing and schedules no redirect.       *)
(***************************************************************************)
C21_CallbackStoresUnlessThrow ==
    [][Receives_Query =>
         IF Present(query'.token) /\ Present(query'.user)
           THEN /\ \A k \in StorageKeys \ CallbackKeys : storage'[k] = storage[k]
                /\ \/ /\ storage'["access_token"] = query'.token
                      /\ storage'["user_login"] = query'.user
                      /\ storage'["user_name"] = query'.user
                      /\ cbStatus' = "success"
                      /\ cbTimers' = cbTimers \cup {[target |-> "dashboard"]}
                   \/ /\ cbStatus' = "error"
                      /\ cbError' # ""
                      /\ cbTimers' = cbTimers \cup {[target |-> "index"]}
                      /\ \A k \in CallbackKeys :
                           storage'[k] \in {storage[k], query'.token, query'.user}
           ELSE /\ storage' = storage
                /\ cbTimers' = cbTimers
                /\ cbStatus' = cbStatus]_vars

\* the callback page has stored the session of a sign-in into an empty
\* storage and the redirect to the dashboard is pending
C21_Witness ==
    /\ page = "callback"
    /\ query = [token |-> Tok, user |-> User]
    /\ cbStatus = "success"
    /\ storage = SignedIn
    /\ cbTimers = {[target |-> "dashboard"]}

(***************************************************************************)
(* Vocabulary of the properties of the derived statistics.                 *)
(***************************************************************************)
\* the number of elements of an array field that are equal to a value; 0
\* for a field that is not an array
CountIn(field, value) ==
    Cardinality({k \in 1..Len(field.items) : field.kind = "array" /\ field.items[k] = value})

\* the number of elements of an array field; 0 for a field that is not an array
SizeOf(field) == IF field.kind = "array" THEN Len(field.items) ELSE 0

\* calculateStats has returned the statistics of the result on the page
HasStats == result # <<>> /\ stats.kind = "stats"

(***************************************************************************)
(* C22: the statistics calculateStats returns hold, for each severity      *)
(* high/medium/low of issues, each type performance/security/              *)
(* maintainability of enhancements and each priority high/medium/low of    *)
(* file_suggestions, the number of elements with that value, with          *)
(* totalFiles = the number of files and analyzedLines = total_lines or 0;  *)
(* for issues of severities high, high, low they hold high 2, medium 0,    *)
(* low 1.                                                                  *)
(***************************************************************************)
C22_StatsCountByCategory ==
    HasStats =>
      /\ stats.highSeverity = CountIn(resultData.issues, "high")
      /\ stats.mediumSeverity = CountIn(resultData.issues, "medium")
      /\ stats.lowSeverity = CountIn(resultData.issues, "low")
      /\ stats.performanceEnhancements = CountIn(resultData.enhancements, "performance")
      /\ stats.securityEnhancements = CountIn(resultData.enhancements, "security")
      /\ stats.maintainabilityEnhancements = CountIn(resultData.enhancements, "maintainability")
      /\ stats.highPriorityFiles = CountIn(resultData.file_suggestions, "high")
      /\ stats.mediumPriorityFiles = CountIn(resultData.file_suggestions, "medium")
      /\ stats.lowPriorityFiles = CountIn(resultData.file_suggestions, "low")
      /\ stats.totalFiles = SizeOf(resultData.files)
      /\ stats.analyzedLines =
           (IF resultData.total_lines.kind = "number" THEN resultData.total_lines.n ELSE 0)
      /\ resultData.issues = Arr(<<"high", "high", "low">>) =>
           (stats.highSeverity = 2 /\ stats.mediumSeverity = 0 /\ stats.lowSeverity = 1)

\* the statistics of a result with issues of severities high, high, low
C22_Witness ==
    /\ HasStats
    /\ resultData.issues = Arr(<<"high", "high", "low">>)
    /\ resultData.files = Arr(<<"a.js", "b.js">>)
    /\ resultData.total_lines = Num(120)
    /\ stats.highSeverity = 2 /\ stats.mediumSeverity = 0 /\ stats.lowSeverity = 1
    /\ stats.totalFiles = 2 /\ stats.analyzedLines = 120

C24_NeverStalls ==
    (alive /\ isMounted /\ job_id # Undefined /\ loading) => chains # {}

(***************************************************************************)
(* C25: after a change of job_id on the mounted page, every value written  *)
(* to result, error and analysisProgress comes from a response for the     *)
(* current job_id: a response for the previous job_id is never stored or   *)
(* shown under the new one.                                                *)
(***************************************************************************)
C25_NoCrossJobResponses ==
    [][( /\ alive /\ alive'
         /\ \/ result' # result
            \/ error' # error
            \/ analysisProgress' # analysisProgress )
       => lastJob' = job_id']_vars

(***************************************************************************)
(* C26: on the results page the error state, once the poller or an action  *)
(* (its local validation included) has set it to a non-empty string, is    *)
(* never cleared by a later operation of the page; and as long as it is    *)
(* set the result view is not rendered, so a failure of an action after a  *)
(* completed job hides the result for the rest of the page's life.         *)
(***************************************************************************)
C26_ErrorIsNeverCleared ==
    /\ [][error # "" => error' # ""]_vars
    /\ [](error # "" => ~ResultShown)
    /\ [][\A r \in Settled :
            (~settled'.ok /\ result # <<>>) => (error' # "" /\ ~ResultShown')]_vars

\* a create-issue request failed on the page of a completed job; the fix PR
\* request that was outstanding has succeeded since, the error is still there
C26_Witness ==
    /\ result # <<>> /\ ~loading
    /\ error = "Failed to create issue"
    /\ settled.op = "pr" /\ settled.ok
    /\ requests = {}

(***************************************************************************)
(* C27: an action that has set its in-flight flag clears it in the step in *)
(* which its request settles, whether the request succeeded or failed; at  *)
(* no time is creatingIssue, creatingPR, creatingEnhancementPR or          *)
(* creatingDeploymentPR set with no request of that action outstanding.    *)
(***************************************************************************)
C27_FlagsAreCleared ==
    /\ [](\A op \in FlagOps : Flags[op] => \E r \in requests : r.op = op)
    /\ [][\A r \in Settled : r.op \in FlagOps => (Flags[r.op] /\ ~Flags'[r.op])]_vars

\* the request of the deployment PR has failed and its flag is clear, while
\* the request of create issue is still outstanding with its flag set
C27_Witness ==
    /\ settled.op = "deployment" /\ ~settled.ok
    /\ ~creatingDeploymentPR
    /\ error = "Bad credentials"
    /\ creatingIssue
    /\ \E r \in requests : r.op = "issue"

(***************************************************************************)
(* C28: on the dashboard at most one analysis submission is outstanding at *)
(* any time: loading is set when a request is posted and is reset only     *)
(* when that request fails; after a successful submission no further       *)
(* submission is posted from the page; after a failed one the Start        *)
(* Analysis button is enabled again.                                       *)
(***************************************************************************)
C28_OneSubmissionOutstanding ==
    /\ [](Cardinality(posts) <= 1)
    /\ [](posts # {} => dLoading)
    /\ [][Posts => (~dLoading /\ dLoading')]_vars
    /\ [][(dLoading /\ ~dLoading') => (Fails /\ posts # {} /\ posts' = {})]_vars
    /\ [](returned # {} => dLoading)
    /\ [][Posts => returned = {}]_vars
    /\ [][Fails => (~StartDisabled' /\ (calls < MaxCalls => ENABLED StartAnalysis)')]_vars

\* the first submission failed and a second one has been posted
C28_Witness ==
    /\ dFailure.post = 1
    /\ posted = 2
    /\ \E p \in posts : p.id = 2
    /\ dLoading

(***************************************************************************)
(* C29: no request of an authenticated page is issued without a stored     *)
(* credential: a page that mounts with no access_token in storage          *)
(* redirects to the home page, the dashboard issues no repository-list or  *)
(* provider-list fetch (and posts no analysis), and the results page       *)
(* issues no status fetch.                                                 *)
(***************************************************************************)
C29_NoRequestWithoutCredential ==
    Falsy(GetItem("access_token")) =>
      /\ isMounted => pushedHome
      /\ dMounted => dPushedHome
      /\ issued = 0 /\ gets = {} /\ posted = 0
      /\ fetchCount = 0 /\ chains = {}

(***************************************************************************)
(* Vocabulary of the properties of the search.                             *)
(***************************************************************************)
\* the search requests outstanding
Searches == {g \in gets : g.op = "search"}

(***************************************************************************)
(* C30: under any interleaving of overlapping search requests, isSearching *)
(* is true exactly while at least one search request is outstanding, and   *)
(* the response of a search is not stored as searchResults when a search   *)
(* issued after it is outstanding (so that, once all have settled,         *)
(* searchResults is the response of the most recently issued one).         *)
(***************************************************************************)
C30_OverlappingSearches ==
    /\ [](isSearching <=> Searches # {})
    /\ [][\A g \in Searches \ gets' :
            searchResults' # searchResults => \A h \in Searches : h.id <= g.id]_vars

====
